---- MODULE Spec2Model ----
(***************************************************************************)
(* Model of the shape-descriptor parsers of ops_generator (lib/shape.js,   *)
(* lib/types.js, lib/utils.js).                                            *)
(*                                                                         *)
(* A JavaScript string is modelled as the sequence of its characters, so   *)
(* that the regular expressions, split(':') and parseInt of the source are *)
(* computed character by character.  A token of a shape array is a record  *)
(* [ty, s]: ty is the JavaScript type of the element ("string" or          *)
(* "number") and s the characters of String(element).  Texts the code      *)
(* builds (type names, declarations) are TLA+ strings.                     *)
(***************************************************************************)
EXTENDS Integers, Sequences, FiniteSets, TLC

VARIABLES shape, op, result

vars == <<shape, op, result>>

(***************************************************************************)
(* Bounds of the model.                                                    *)
(***************************************************************************)
\* Largest number of dimension tokens in a shape array.
MaxDims == 3
\* Largest channel count written in a data token (the code accepts 1..4).
MaxChan == 5
MaxSize == 3

(***************************************************************************)
(* Characters and JavaScript primitives.                                   *)
(***************************************************************************)
DigitChars == <<"0", "1", "2", "3", "4", "5", "6", "7", "8", "9">>

IsDigit(c) == \E i \in 1..10 : DigitChars[i] = c

DigitVal(c) == (CHOOSE i \in 1..10 : DigitChars[i] = c) - 1

\* The text of a character sequence.
RECURSIVE Join(_)
Join(s) == IF s = <<>> THEN "" ELSE Head(s) \o Join(Tail(s))

\* String(n) for a non-negative integer n, as characters.
RECURSIVE IntToChars(_)
IntToChars(n) ==
  IF n < 10 THEN <<DigitChars[n + 1]>>
  ELSE IntToChars(n \div 10) \o <<DigitChars[(n % 10) + 1]>>

\* parseInt(s) for a sequence of decimal digits s.
RECURSIVE parseInt(_)
parseInt(s) ==
  IF Len(s) = 1 THEN DigitVal(s[1])
  ELSE 10 * parseInt(SubSeq(s, 1, Len(s) - 1)) + DigitVal(s[Len(s)])

\* The regular expression [1-9]\d* matched against the whole of s.
IsPosIntLit(s) ==
  /\ Len(s) >= 1
  /\ s[1] # "0"
  /\ \A i \in 1..Len(s) : IsDigit(s[i])

\* s.startsWith(p)
startsWith(s, p) == Len(s) >= Len(p) /\ SubSeq(s, 1, Len(p)) = p

\* s.split(sep) for a one-character separator: the pieces between separators.
RECURSIVE split(_, _)
split(s, sep) ==
  IF \A i \in 1..Len(s) : s[i] # sep THEN <<s>>
  ELSE LET k == CHOOSE i \in 1..Len(s) :
                  s[i] = sep /\ \A j \in 1..(i - 1) : s[j] # sep
       IN <<SubSeq(s, 1, k - 1)>> \o split(SubSeq(s, k + 1, Len(s)), sep)

\* The number of leading decimal digits of s.
RECURSIVE LeadingDigits(_)
LeadingDigits(s) ==
  IF s = <<>> \/ ~IsDigit(Head(s)) THEN 0 ELSE 1 + LeadingDigits(Tail(s))

(***************************************************************************)
(* Literals of the source.                                                 *)
(***************************************************************************)
Str_none   == <<"n", "o", "n", "e">>
Str_vector == <<"v", "e", "c", "t", "o", "r">>
Str_CV     == <<"C", "V">>
Str_Mat    == <<"M", "a", "t">>
Str_Matx   == <<"M", "a", "t", "x">>
Str_Vec    == <<"V", "e", "c">>
Str_char   == <<"c", "h", "a", "r">>
Str_int    == <<"i", "n", "t">>
Str_float  == <<"f", "l", "o", "a", "t">>
Str_double == <<"d", "o", "u", "b", "l", "e">>

\* A property the code never assigned.
Undefined == "undefined"

\* The dims value 'none' of a dimension descriptor (the other values are the
\* integers parseInt returns, all >= 1).
NoneDims == -1

SCALAR      == "SCALAR"
VEC_OF_PRIM == "VEC_OF_PRIM"
VEC_OF_MAT  == "VEC_OF_MAT"
MAT         == "MAT"

\* throw new Error(msg + args): the fixed text of the message and the values
\* interpolated into it.
Throw(msg, args) == [ok |-> FALSE, msg |-> msg, args |-> args]

(***************************************************************************)
(* lib/types.js                                                            *)
(***************************************************************************)
cvToStd(typeStr) ==
  CASE typeStr = "8U"  -> [ok |-> TRUE, value |-> "uint8_t"]
    [] typeStr = "16U" -> [ok |-> TRUE, value |-> "uint16_t"]
    [] typeStr = "8S"  -> [ok |-> TRUE, value |-> "int8_t"]
    [] typeStr = "16S" -> [ok |-> TRUE, value |-> "int16_t"]
    [] typeStr = "32S" -> [ok |-> TRUE, value |-> "int32_t"]
    [] typeStr = "32F" -> [ok |-> TRUE, value |-> "float"]
    [] typeStr = "64F" -> [ok |-> TRUE, value |-> "double"]
    [] OTHER -> Throw("Invalid data type format of CV: ", <<typeStr>>)

stdToCv(typeStr) ==
  CASE typeStr = "char"   -> [ok |-> TRUE, value |-> "CV_8S"]
    [] typeStr = "int"    -> [ok |-> TRUE, value |-> "CV_32S"]
    [] typeStr = "float"  -> [ok |-> TRUE, value |-> "CV_32F"]
    [] typeStr = "double" -> [ok |-> TRUE, value |-> "CV_64F"]
    [] OTHER -> Throw("Type not supported: ", <<typeStr>>)

\* A cvToTf whose 8S entry is the unsigned type.
cvToTf_unsigned8S(typeStr) ==
  CASE typeStr = "8U"  -> [ok |-> TRUE, value |-> "uint8"]
    [] typeStr = "16U" -> [ok |-> TRUE, value |-> "uint16"]
    [] typeStr = "8S"  -> [ok |-> TRUE, value |-> "uint8"]
    [] typeStr = "16S" -> [ok |-> TRUE, value |-> "int16"]
    [] typeStr = "32S" -> [ok |-> TRUE, value |-> "int32"]
    [] typeStr = "32F" -> [ok |-> TRUE, value |-> "float32"]
    [] typeStr = "64F" -> [ok |-> TRUE, value |-> "float64"]
    [] OTHER -> Throw("Invalid data type format of CV: ", <<typeStr>>)

cvToTf(typeStr) ==
  CASE typeStr = "8U"  -> [ok |-> TRUE, value |-> "uint8"]
    [] typeStr = "16U" -> [ok |-> TRUE, value |-> "uint16"]
    [] typeStr = "8S"  -> [ok |-> TRUE, value |-> "int8"]
    [] typeStr = "16S" -> [ok |-> TRUE, value |-> "int16"]
    [] typeStr = "32S" -> [ok |-> TRUE, value |-> "int32"]
    [] typeStr = "32F" -> [ok |-> TRUE, value |-> "float32"]
    [] typeStr = "64F" -> [ok |-> TRUE, value |-> "float64"]
    [] OTHER -> Throw("Invalid data type format of CV: ", <<typeStr>>)

stdToTf(typeStr) ==
  CASE typeStr = "char"   -> [ok |-> TRUE, value |-> "int8"]
    [] typeStr = "int"    -> [ok |-> TRUE, value |-> "int32"]
    [] typeStr = "float"  -> [ok |-> TRUE, value |-> "float32"]
    [] typeStr = "double" -> [ok |-> TRUE, value |-> "float64"]
    [] OTHER -> Throw("Type not supported: ", <<typeStr>>)

(***************************************************************************)
(* lib/shape.js: parseDimDtor                                              *)
(***************************************************************************)
\* lodash.isInteger on a number token, whose text is String(n).  String(n)
\* of an integer below 1e21 is an optional sign and digits; from 1e21 on it
\* is the exponent form d[.ddd]e+NN, and every number that large is an
\* integer.  Fractions ("0.5", "1e-7"), Infinity and NaN are no integers.
isInteger(tok) ==
  /\ tok.ty = "number"
  /\ LET d == IF tok.s # <<>> /\ Head(tok.s) = "-" THEN Tail(tok.s) ELSE tok.s
         AllDigits(x) == x # <<>> /\ \A i \in 1..Len(x) : IsDigit(x[i])
     IN \/ AllDigits(d)
        \/ \E e \in 2..(Len(d) - 2) :
             /\ d[e] = "e" /\ d[e + 1] = "+"
             /\ AllDigits(SubSeq(d, e + 2, Len(d)))
             /\ IsDigit(d[1])
             /\ (e = 2 \/ (e >= 4 /\ d[2] = "." /\ AllDigits(SubSeq(d, 3, e - 1))))

\* The alternation (none|0|[1-9]\d*) matched against the whole of s.
SizeLit(s) == s = Str_none \/ s = <<"0">> \/ IsPosIntLit(s)

\* format1 = /(^vector):(none|0|[1-9]\d*)$/
format1_test(s) ==
  /\ startsWith(s, Str_vector \o <<":">>)
  /\ SizeLit(SubSeq(s, Len(Str_vector) + 2, Len(s)))

\* Groups 1 and 2 of format1.exec(s).
format1_exec(s) == <<Str_vector, SubSeq(s, Len(Str_vector) + 2, Len(s))>>

\* format2 = /(^none|^0|^[1-9]\d*)$/
format2_test(s) == SizeLit(s)

\* A parseDimDtor whose vector form has no check of the size 0.
parseDimDtor_vectorZero(tok) ==
  IF tok.ty # "string" /\ ~isInteger(tok)
  THEN Throw("Invalid dimensional descriptor format: ", <<Join(tok.s)>>)
  ELSE IF format1_test(tok.s)
  THEN LET r == format1_exec(tok.s) IN
       [ok |-> TRUE, type |-> Join(r[1]),
        dims |-> IF r[2] = Str_none THEN NoneDims ELSE parseInt(r[2])]
  ELSE IF format2_test(tok.s)
  THEN IF tok.s # Str_none /\ parseInt(tok.s) < 1
       THEN Throw("Invalid dimensional descriptor format: dimension should > 0", <<>>)
       ELSE [ok |-> TRUE, type |-> "Mat",
             dims |-> IF tok.s = Str_none THEN NoneDims ELSE parseInt(tok.s)]
  ELSE Throw("Invalid dimensional descriptor format: ", <<Join(tok.s)>>)

\* A parseDimDtor that names the type of the second form 'mat'.
parseDimDtor_lowerMat(tok) ==
  IF tok.ty # "string" /\ ~isInteger(tok)
  THEN Throw("Invalid dimensional descriptor format: ", <<Join(tok.s)>>)
  ELSE IF format1_test(tok.s)
  THEN LET r == format1_exec(tok.s) IN
       IF r[2] # Str_none /\ parseInt(r[2]) < 1
       THEN Throw("Invalid dimensional descriptor format: dimension should > 0", <<>>)
       ELSE [ok |-> TRUE, type |-> Join(r[1]),
             dims |-> IF r[2] = Str_none THEN NoneDims ELSE parseInt(r[2])]
  ELSE IF format2_test(tok.s)
  THEN IF tok.s # Str_none /\ parseInt(tok.s) < 1
       THEN Throw("Invalid dimensional descriptor format: dimension should > 0", <<>>)
       ELSE [ok |-> TRUE, type |-> "mat",
             dims |-> IF tok.s = Str_none THEN NoneDims ELSE parseInt(tok.s)]
  ELSE Throw("Invalid dimensional descriptor format: ", <<Join(tok.s)>>)

parseDimDtor(tok) ==
  IF tok.ty # "string" /\ ~isInteger(tok)
  THEN Throw("Invalid dimensional descriptor format: ", <<Join(tok.s)>>)
  ELSE IF format1_test(tok.s)
  THEN LET r == format1_exec(tok.s) IN
       IF r[2] # Str_none /\ parseInt(r[2]) < 1
       THEN Throw("Invalid dimensional descriptor format: dimension should > 0", <<>>)
       ELSE [ok |-> TRUE, type |-> Join(r[1]),
             dims |-> IF r[2] = Str_none THEN NoneDims ELSE parseInt(r[2])]
  ELSE IF format2_test(tok.s)
  THEN IF tok.s # Str_none /\ parseInt(tok.s) < 1
       THEN Throw("Invalid dimensional descriptor format: dimension should > 0", <<>>)
       ELSE [ok |-> TRUE, type |-> "Mat",
             dims |-> IF tok.s = Str_none THEN NoneDims ELSE parseInt(tok.s)]
  ELSE Throw("Invalid dimensional descriptor format: ", <<Join(tok.s)>>)

(***************************************************************************)
(* lib/shape.js: parseDataDtor                                             *)
(***************************************************************************)
IsDepthCode(depth) ==
  ~(depth # "8U" /\ depth # "8S" /\ depth # "16U" /\ depth # "16S"
      /\ depth # "32S" /\ depth # "32F" /\ depth # "64F")

\* The common head of dtypeFormat1 and dtypeFormat2, /^CV_([1-9]\d*)(U|S|F)/:
\* s starts with CV_, a positive integer literal and one of U, S, F.
dtypeHead_test(s) ==
  /\ startsWith(s, Str_CV \o <<"_">>)
  /\ LET body == SubSeq(s, 4, Len(s))
         k    == LeadingDigits(body)
     IN /\ k >= 1
        /\ body[1] # "0"
        /\ Len(body) >= k + 1
        /\ body[k + 1] \in {"U", "S", "F"}

\* Length of the text CV_<digits><U|S|F> at the head of s.
dtypeHead_len(s) == 3 + LeadingDigits(SubSeq(s, 4, Len(s))) + 1

\* dtypeFormat1 = /^CV_([1-9]\d*)(U|S|F)C([1-9]\d*)$/
dtypeFormat1_test(s) ==
  /\ dtypeHead_test(s)
  /\ LET h == dtypeHead_len(s)
     IN /\ Len(s) >= h + 2
        /\ s[h + 1] = "C"
        /\ IsPosIntLit(SubSeq(s, h + 2, Len(s)))

\* Groups 1, 2 and 3 of dtypeFormat1.exec(s).
dtypeFormat1_exec(s) ==
  LET h == dtypeHead_len(s)
  IN <<SubSeq(s, 4, h - 1), <<s[h]>>, SubSeq(s, h + 2, Len(s))>>

\* dtypeFormat2 = /^CV_([1-9]\d*)(U|S|F)$/
dtypeFormat2_test(s) == dtypeHead_test(s) /\ Len(s) = dtypeHead_len(s)

\* Groups 1 and 2 of dtypeFormat2.exec(s).
dtypeFormat2_exec(s) ==
  LET h == dtypeHead_len(s) IN <<SubSeq(s, 4, h - 1), <<s[h]>>>>

\* ctypeFormat = /^(Mat|Matx|Vec)$/
ctypeFormat_test(s) == s = Str_Mat \/ s = Str_Matx \/ s = Str_Vec

\* stdFormat = /^(char|int|float|double)$/
stdFormat_test(s) == s = Str_char \/ s = Str_int \/ s = Str_float \/ s = Str_double

\* A limit of five channels.
tooManyChannels_five(channels) == parseInt(channels) > 5

\* Line 384: channels > 4, the channel text compared as a number.
tooManyChannels(channels) == parseInt(channels) > 4

\* The accessor closure of a data descriptor, as the text it puts before and
\* after its argument string.
accessorOf(ctype, dtype) ==
  IF ctype = "Matx" THEN [open |-> "(", close |-> ")"]
  ELSE IF ctype = "Vec" THEN [open |-> "[", close |-> "]"]
  ELSE [open |-> ".at<" \o cvToStd(dtype).value \o ">(", close |-> ")"]

\* A parseCtype without the check of lines 418-420.
parseCtype_anyChannels(str, part1, part2, dtype, channels) ==
  LET given == part2 # Undefined /\ part2 # <<>>
  IN IF given /\ ~ctypeFormat_test(part2)
     THEN Throw("Invalid data descriptor format: ", <<Join(str)>>)
     ELSE LET ctype == IF given THEN Join(part2) ELSE "Mat"
          IN [ok |-> TRUE, format |-> "cv", dtype |-> dtype,
              channels |-> channels, ctype |-> ctype,
              toString |-> Join(part1),
              accessor |-> accessorOf(ctype, dtype)]

\* A parseCtype whose toString keeps the binding of line 366, the whole token.
parseCtype_fullString(str, part1, part2, dtype, channels) ==
  LET given == part2 # Undefined /\ part2 # <<>>
  IN IF given /\ ~ctypeFormat_test(part2)
     THEN Throw("Invalid data descriptor format: ", <<Join(str)>>)
     ELSE LET ctype == IF given THEN Join(part2) ELSE "Mat"
          IN IF ctype # "Mat" /\ channels > 1
             THEN Throw("Invalid data descriptor format: static Mat type does not support multichannels", <<>>)
             ELSE [ok |-> TRUE, format |-> "cv", dtype |-> dtype,
                   channels |-> channels, ctype |-> ctype,
                   toString |-> Join(str),
                   accessor |-> accessorOf(ctype, dtype)]

\* The second half of the CV branch of parseDataDtor, lines 408-431: the
\* canonical string, the container type and the accessor.
parseCtype(str, part1, part2, dtype, channels) ==
  LET given == part2 # Undefined /\ part2 # <<>>      \* if (part2)
  IN IF given /\ ~ctypeFormat_test(part2)
     THEN Throw("Invalid data descriptor format: ", <<Join(str)>>)
     ELSE LET ctype == IF given THEN Join(part2) ELSE "Mat"
          IN IF ctype # "Mat" /\ channels > 1
             THEN Throw("Invalid data descriptor format: static Mat type does not support multichannels", <<>>)
             ELSE [ok |-> TRUE, format |-> "cv", dtype |-> dtype,
                   channels |-> channels, ctype |-> ctype,
                   toString |-> Join(part1),
                   accessor |-> accessorOf(ctype, dtype)]

parseDataDtor(tok) ==
  IF tok.ty # "string"
  THEN Throw("Invalid data descriptor format: ", <<Join(tok.s)>>)
  ELSE IF startsWith(tok.s, Str_CV)
  THEN LET str   == tok.s
           parts == split(str, ":")
           part1 == parts[1]
           part2 == IF Len(parts) >= 2 THEN parts[2] ELSE Undefined
       IN IF dtypeFormat1_test(part1)
          THEN LET dtype    == dtypeFormat1_exec(part1)
                   depth    == Join(dtype[1]) \o Join(dtype[2])
                   channels == dtype[3]
               IN IF tooManyChannels(channels)
                  THEN Throw("Invalid Data Cell format of channel: expect number between 1, 4 but get ",
                             <<Join(channels), Join(str)>>)
                  ELSE IF ~IsDepthCode(depth)
                  THEN Throw("Invalid Data Cell format of depth: ", <<depth, Join(str)>>)
                  ELSE parseCtype(str, part1, part2, depth, parseInt(channels))
          ELSE IF dtypeFormat2_test(part1)
          THEN LET dtype == dtypeFormat2_exec(part1)
                   depth == Join(dtype[1]) \o Join(dtype[2])
               IN IF ~IsDepthCode(depth)
                  THEN Throw("Invalid Data Cell format of depth: ", <<depth, Join(str)>>)
                  ELSE parseCtype(str, part1, part2, depth, 1)
          ELSE Throw("Invalid data descriptor format: ", <<Join(str)>>)
  ELSE IF ~stdFormat_test(tok.s)
  THEN Throw("Invalid data descriptor format: ", <<Join(tok.s)>>)
  ELSE [ok |-> TRUE, format |-> "std", dtype |-> Join(tok.s), channels |-> 1,
        ctype |-> Undefined, toString |-> Join(tok.s), accessor |-> Undefined]

(***************************************************************************)
(* lib/shape.js: getTfRank, getCvRank; lib/utils.js: lastIndexOf           *)
(***************************************************************************)
\* A getTfRank that counts a channel dimension for every CV descriptor.
getTfRank_everyCv(sh) ==
  IF Len(sh) = 0 THEN Throw("Invalid shape format: empty shape array.", <<>>)
  ELSE LET dtor   == parseDataDtor(sh[Len(sh)])
           cvRank == Len(sh) - 1
       IN IF ~dtor.ok THEN dtor
          ELSE IF dtor.format = "cv"
          THEN [ok |-> TRUE, value |-> cvRank + 1]
          ELSE [ok |-> TRUE, value |-> cvRank]

getTfRank(sh) ==
  IF Len(sh) = 0 THEN Throw("Invalid shape format: empty shape array.", <<>>)
  ELSE LET dtor   == parseDataDtor(sh[Len(sh)])
           cvRank == Len(sh) - 1
       IN IF ~dtor.ok THEN dtor
          ELSE IF dtor.format = "cv"
          THEN IF dtor.channels = 1
               THEN [ok |-> TRUE, value |-> cvRank]
               ELSE [ok |-> TRUE, value |-> cvRank + 1]
          ELSE [ok |-> TRUE, value |-> cvRank]

getCvRank(sh) ==
  IF Len(sh) = 0 THEN Throw("Invalid shape format: empty shape array.", <<>>)
  ELSE [ok |-> TRUE, value |-> Len(sh) - 1]

\* A lastIndexOf that stops at the first match.
lastIndexOf_first(arr, fn) ==
  LET matched == {i \in 1..Len(arr) : fn[arr[i]]}
  IN IF matched = {} THEN -1
     ELSE (CHOOSE i \in matched : \A j \in matched : i <= j) - 1

\* utils.lastIndexOf(arr, fn): forEach overwrites lastIndex at every match, so
\* the result is the largest matching index (0-based), -1 when none matches.
\* The match function fn is given as a function on the elements of arr.
lastIndexOf(arr, fn) ==
  LET matched == {i \in 1..Len(arr) : fn[arr[i]]}
  IN IF matched = {} THEN -1
     ELSE (CHOOSE i \in matched : \A j \in matched : j <= i) - 1

(***************************************************************************)
(* lib/shape.js: parseShape                                                *)
(***************************************************************************)
\* arr.slice(from, to) with the 0-based, end-exclusive indices of the source.
slice(arr, from, to) == SubSeq(arr, from + 1, to)

\* A declareVec that is one layer short.
RECURSIVE declareVec_short(_, _)
declareVec_short(template, end) ==
  IF end <= 1 THEN template
  ELSE "vector<" \o declareVec_short(template, end - 1) \o ">"

RECURSIVE declareVec(_, _)
declareVec(template, end) ==
  IF end = 0 THEN template
  ELSE "vector<" \o declareVec(template, end - 1) \o ">"

\* String(elem.dims)
dimsText(d) == IF d = NoneDims THEN "none" ELSE Join(IntToChars(d))

\* arr.join(', ') of texts.
RECURSIVE join(_, _)
join(arr, sep) ==
  IF arr = <<>> THEN ""
  ELSE IF Len(arr) = 1 THEN arr[1]
  ELSE arr[1] \o sep \o join(Tail(arr), sep)

\* A check that wants one dimension of Matx as well as of Vec.
checkStaticMat_oneDim(ctype, matDimDtorArr, matDims) ==
  IF ctype = "Matx" \/ ctype = "Vec"
  THEN IF \E i \in 1..Len(matDimDtorArr) : matDimDtorArr[i].dims = NoneDims
       THEN Throw("Invalid shape format: dynamic dimension size is not allowed for static Mat type", <<>>)
       ELSE IF matDims > 1
       THEN Throw("Invalid shape format: Vec type should be one-dimensional", <<>>)
       ELSE [ok |-> TRUE]
  ELSE [ok |-> TRUE]

\* Lines 253-260: the conditions on a shape of static Mat type (Matx, Vec).
checkStaticMat(ctype, matDimDtorArr, matDims) ==
  IF ctype = "Matx" \/ ctype = "Vec"
  THEN IF \E i \in 1..Len(matDimDtorArr) : matDimDtorArr[i].dims = NoneDims
       THEN Throw("Invalid shape format: dynamic dimension size is not allowed for static Mat type", <<>>)
       ELSE IF matDims > 1 /\ ctype = "Vec"
       THEN Throw("Invalid shape format: Vec type should be one-dimensional", <<>>)
       ELSE [ok |-> TRUE]
  ELSE [ok |-> TRUE]

\* A declaration that puts the '1' in front of every one-dimensional list.
declareMat_leadAlways(ctype, dtype, matDimDtorArr, matDims) ==
  IF ctype = "Matx" \/ ctype = "Vec"
  THEN LET joined == join([i \in 1..Len(matDimDtorArr) |->
                             dimsText(matDimDtorArr[i].dims)], ", ")
           matDimStr == IF matDims = 1 THEN "1, " \o joined ELSE joined
       IN ctype \o "<" \o cvToStd(dtype).value \o ", " \o matDimStr \o ">"
  ELSE "Mat"

\* Lines 262-270: varMatDecStr, the declaration of one Mat element.
declareMat(ctype, dtype, matDimDtorArr, matDims) ==
  IF ctype = "Matx" \/ ctype = "Vec"
  THEN LET joined == join([i \in 1..Len(matDimDtorArr) |->
                             dimsText(matDimDtorArr[i].dims)], ", ")
           matDimStr == IF ctype = "Matx" /\ matDims = 1
                        THEN "1, " \o joined ELSE joined
       IN ctype \o "<" \o cvToStd(dtype).value \o ", " \o matDimStr \o ">"
  ELSE "Mat"

\* Lines 246-283: the declaration strings of a classified shape.
declare(r) ==
  IF r.type = VEC_OF_PRIM
  THEN [r EXCEPT !.varDecStr = declareVec(r.dataDtor.dtype, r.vecDims)]
  ELSE IF r.type = VEC_OF_MAT \/ r.type = MAT
  THEN LET ctype == r.dataDtor.ctype
           check == checkStaticMat(ctype, r.matDimDtorArr, r.matDims)
       IN IF ~check.ok THEN check
          ELSE LET varMatDecStr ==
                     declareMat(ctype, r.dataDtor.dtype, r.matDimDtorArr, r.matDims)
               IN [r EXCEPT !.varMatDecStr = varMatDecStr,
                            !.varDecStr = IF r.type = VEC_OF_MAT
                                          THEN declareVec(varMatDecStr, r.vecDims)
                                          ELSE varMatDecStr]
  ELSE [r EXCEPT !.varDecStr = r.dataDtor.dtype]

\* A classification that takes a vector of a CV type for a vector of primary
\* type.
classify_vecOfCv(r, lastVecIdx) ==
  IF lastVecIdx # -1
  THEN IF r.vecDims = r.cvRank
       THEN [r EXCEPT !.type = VEC_OF_PRIM]
       ELSE IF r.dataDtor.format # "cv"
            THEN Throw("Invalid shape format: Mat of primary type is not allowed", <<>>)
            ELSE [r EXCEPT !.type = VEC_OF_MAT]
  ELSE IF r.dataDtor.format = "cv"
       THEN IF r.cvRank = 0
            THEN Throw("Invalid shape format: scalar of OpenCV type is not allowed", <<>>)
            ELSE [r EXCEPT !.type = MAT]
       ELSE IF r.cvRank > 0
            THEN Throw("Invalid shape format: Mat of primary type is not allowed", <<>>)
            ELSE [r EXCEPT !.type = SCALAR]

\* A classification that rejects a scalar of a CV type only when it is
\* multichannel.
classify_scalarCv(r, lastVecIdx) ==
  IF lastVecIdx # -1
  THEN IF r.vecDims = r.cvRank
       THEN IF r.dataDtor.format = "cv"
            THEN Throw("Invalid shape format: vector of OpenCV type is not allowed", <<>>)
            ELSE [r EXCEPT !.type = VEC_OF_PRIM]
       ELSE IF r.dataDtor.format # "cv"
            THEN Throw("Invalid shape format: Mat of primary type is not allowed", <<>>)
            ELSE [r EXCEPT !.type = VEC_OF_MAT]
  ELSE IF r.dataDtor.format = "cv"
       THEN IF r.cvRank = 0 /\ r.dataDtor.channels > 1
            THEN Throw("Invalid shape format: scalar of OpenCV type is not allowed", <<>>)
            ELSE [r EXCEPT !.type = MAT]
       ELSE IF r.cvRank > 0
            THEN Throw("Invalid shape format: Mat of primary type is not allowed", <<>>)
            ELSE [r EXCEPT !.type = SCALAR]

\* Lines 218-244: the type of the shape, or the error of a combination that
\* is not allowed.
classify(r, lastVecIdx) ==
  IF lastVecIdx # -1
  THEN IF r.vecDims = r.cvRank
       THEN IF r.dataDtor.format = "cv"
            THEN Throw("Invalid shape format: vector of OpenCV type is not allowed", <<>>)
            ELSE [r EXCEPT !.type = VEC_OF_PRIM]
       ELSE IF r.dataDtor.format # "cv"
            THEN Throw("Invalid shape format: Mat of primary type is not allowed", <<>>)
            ELSE [r EXCEPT !.type = VEC_OF_MAT]
  ELSE IF r.dataDtor.format = "cv"
       THEN IF r.cvRank = 0
            THEN Throw("Invalid shape format: scalar of OpenCV type is not allowed", <<>>)
            ELSE [r EXCEPT !.type = MAT]
       ELSE IF r.cvRank > 0
            THEN Throw("Invalid shape format: Mat of primary type is not allowed", <<>>)
            ELSE [r EXCEPT !.type = SCALAR]

\* A check that looks only at the item just before the last vector item.
matOfVector_adjacent(dimDtorArr, lastVecIdx) ==
  /\ lastVecIdx > 0
  /\ dimDtorArr[lastVecIdx].type # "vector"

\* Lines 207-213: some item before the last vector item is not a vector.
matOfVector(dimDtorArr, lastVecIdx) ==
  /\ lastVecIdx > -1
  /\ \E i \in 1..Len(slice(dimDtorArr, 0, lastVecIdx)) :
        slice(dimDtorArr, 0, lastVecIdx)[i].type # "vector"

parseShape(sh) ==
  IF Len(sh) = 0 THEN Throw("Invalid shape format: empty shape array.", <<>>)
  ELSE
  LET lastElemIdx    == Len(sh) - 1
      origDataDtor   == sh[lastElemIdx + 1]
      origDimDtorArr == slice(sh, 0, lastElemIdx)
      dataDtor       == parseDataDtor(origDataDtor)
      dimDtorArr     == [i \in 1..Len(origDimDtorArr) |-> parseDimDtor(origDimDtorArr[i])]
      failed         == {i \in 1..Len(dimDtorArr) : ~dimDtorArr[i].ok}
  IN IF ~dataDtor.ok THEN dataDtor
     ELSE IF failed # {}
     THEN dimDtorArr[CHOOSE i \in failed : \A j \in failed : i <= j]
     ELSE
     LET tfRank     == getTfRank(sh).value
         cvRank     == getCvRank(sh).value
         lastVecIdx == lastIndexOf(dimDtorArr,
                         [item \in {dimDtorArr[i] : i \in 1..Len(dimDtorArr)} |->
                            item.type = "vector"])
     IN IF matOfVector(dimDtorArr, lastVecIdx)
        THEN Throw("Invalid shape format: Mat of vector or vector of Mat of vector is not allowed", <<>>)
        ELSE
        LET r == [ok |-> TRUE, dataDtor |-> dataDtor, dimDtorArr |-> dimDtorArr,
                  tfRank |-> tfRank, cvRank |-> cvRank,
                  vecDims |-> lastVecIdx + 1,
                  matDims |-> cvRank - (lastVecIdx + 1),
                  matDimDtorArr |-> slice(dimDtorArr, lastVecIdx + 1, Len(dimDtorArr)),
                  type |-> Undefined, varMatDecStr |-> Undefined,
                  varDecStr |-> Undefined]
            c == classify(r, lastVecIdx)
        IN IF ~c.ok THEN c ELSE declare(c)

(***************************************************************************)
(* Inputs.                                                                 *)
(***************************************************************************)
StrTok(s) == [ty |-> "string", s |-> s]
NumTok(s) == [ty |-> "number", s |-> s]

\* Dimension tokens of the shape arrays: both kinds, sizes none, 0 and two
\* literals, one of them given as a number.
ShapeDimToks ==
  { StrTok(Str_none), StrTok(<<"2">>), NumTok(<<"1", "0">>), StrTok(<<"0">>),
    StrTok(Str_vector \o <<":">> \o Str_none),
    StrTok(Str_vector \o <<":", "3">>) }

\* Data tokens of the shape arrays.
ShapeDataToks ==
  { StrTok(Str_CV \o <<"_">> \o d \o c \o k) :
      d \in {<<"8", "U">>, <<"3", "2", "F">>},
      c \in {<<>>, <<"C", "1">>, <<"C", "3">>},
      k \in {<<>>, <<":">> \o Str_Matx, <<":">> \o Str_Vec} }
  \cup { StrTok(Str_int), StrTok(Str_double), StrTok(Str_CV \o <<"_", "8", "F">>) }

DimSeqs == UNION { [1..n -> ShapeDimToks] : n \in 0..MaxDims }

Shapes == { d \o <<t>> : d \in DimSeqs, t \in ShapeDataToks } \cup { <<>> }

\* The data token CV_<bits><sign><chan><kind> from its parts, each the text
\* of the part (chan and kind may be empty).
DataTok(bits, sign, chan, kind) ==
  StrTok(Str_CV \o <<"_">> \o bits \o <<sign>> \o chan \o kind)

DepthBits == {<<"8">>, <<"1", "6">>, <<"3", "2">>, <<"6", "4">>}
DepthSigns == {"U", "S", "F"}
\* Channel suffixes: none, C0..C<MaxChan> and C12.
ChanSuffixes ==
  {<<>>, <<"C", "1", "2">>} \cup { <<"C">> \o IntToChars(n) : n \in 0..MaxChan }
\* Container suffixes: none, the three types, and texts outside the grammar.
KindSuffixes ==
  {<<>>, <<":">> \o Str_Mat, <<":">> \o Str_Matx, <<":">> \o Str_Vec,
   <<":">>, <<":">> \o Str_Matx \o <<":">> \o Str_Vec, <<":", "m", "a", "t">>}

\* Data tokens for parseDataDtor alone: every depth of 8, 16, 32, 64 bits with
\* every channel and container suffix, the primary types, and tokens outside
\* the grammar.
DataToks ==
  { DataTok(b, u, c, k) : b \in DepthBits, u \in DepthSigns,
                          c \in ChanSuffixes, k \in KindSuffixes }
  \cup { StrTok(s \o k) : s \in {Str_char, Str_int, Str_float, Str_double},
                          k \in {<<>>, <<":">> \o Str_Matx, <<"A">>} }
  \cup { StrTok(Str_CV), StrTok(Str_CV \o <<"_", "0", "U">>), StrTok(Str_CV \o <<"_", "8", "s">>),
         StrTok(<<"8", "U">>), StrTok(<<>>), StrTok(<<"I", "n", "t">>),
         NumTok(<<"3">>) }

NotCalled == [ok |-> FALSE, msg |-> "", args |-> <<>>]

(***************************************************************************)
(* The shape operations applied to a shape array.                          *)
(***************************************************************************)
Init ==
  /\ shape \in Shapes
  /\ op = "none"
  /\ result = NotCalled

ParseShape ==
  /\ op' = "parseShape"
  /\ result' = parseShape(shape)
  /\ UNCHANGED shape

GetTfRank ==
  /\ op' = "getTfRank"
  /\ result' = getTfRank(shape)
  /\ UNCHANGED shape

GetCvRank ==
  /\ op' = "getCvRank"
  /\ result' = getCvRank(shape)
  /\ UNCHANGED shape

Next == ParseShape \/ GetTfRank \/ GetCvRank

Spec == Init /\ [][Next]_vars

(***************************************************************************)
(* parseDataDtor applied to one data token.                                *)
(***************************************************************************)
InitData ==
  /\ shape \in { <<t>> : t \in DataToks }
  /\ op = "none"
  /\ result = NotCalled

ParseDataDtor ==
  /\ Len(shape) >= 1
  /\ op' = "parseDataDtor"
  /\ result' = parseDataDtor(shape[Len(shape)])
  /\ UNCHANGED shape

NextData == ParseDataDtor

SpecData == InitData /\ [][NextData]_vars

(***************************************************************************)
(* parseDimDtor applied to one dimension token.                            *)
(***************************************************************************)
\* The sizes written as literals: 0..MaxSize and three of several digits.
DimSizes == (0..MaxSize) \cup {10, 12, 100}

\* Texts before the size: none, the prefix of the first form, and prefixes
\* outside the grammar.
DimPrefixes ==
  {<<>>, Str_vector \o <<":">>, Str_vector, <<"V", "e", "c", "t", "o", "r", ":">>}

\* Size texts: none, the literals, and texts outside the grammar.
DimSizeTexts ==
  {Str_none} \cup { IntToChars(n) : n \in DimSizes }
  \cup {<<>>, <<"0", "1">>, <<"-", "1">>, <<"1", ".", "5">>, <<"N", "O", "N", "E">>,
        Str_none \o <<"1">>, <<"1">> \o Str_none}

\* Dimension tokens for parseDimDtor alone: strings of every prefix and size
\* text, and the numbers 0..MaxSize, 10, 12, 100, -1, 0.5 and 1e21.
DimToks ==
  { StrTok(p \o z) : p \in DimPrefixes, z \in DimSizeTexts }
  \cup { NumTok(IntToChars(n)) : n \in DimSizes }
  \cup { NumTok(<<"-", "1">>), NumTok(<<"0", ".", "5">>),
         NumTok(<<"1", "e", "+", "2", "1">>) }

InitDim ==
  /\ shape \in { <<t>> : t \in DimToks }
  /\ op = "none"
  /\ result = NotCalled

ParseDimDtor ==
  /\ Len(shape) = 1
  /\ op' = "parseDimDtor"
  /\ result' = parseDimDtor(shape[1])
  /\ UNCHANGED shape

NextDim == ParseDimDtor

SpecDim == InitDim /\ [][NextDim]_vars

(***************************************************************************)
(* lib/utils.js: parseAttrType                                             *)
(***************************************************************************)
Str_string == <<"s", "t", "r", "i", "n", "g">>
Str_bool   == <<"b", "o", "o", "l">>
Str_false  == <<"f", "a", "l", "s", "e">>
Str_true   == <<"t", "r", "u", "e">>

\* The line terminators, which '.' of a regular expression does not match,
\* and the characters String.prototype.trim removes: the white space of
\* ECMAScript (tab, vertical tab, form feed, blank, no-break space, the
\* byte order mark and the space separators of Unicode) and the line
\* terminators.  A character that cannot be written in a string here is one
\* element named by its code point, "U+2028".
LineTerminators == {"\n", "\r", "U+2028", "U+2029"}
WhiteChars ==
  {" ", "\t", "\f", "U+000B", "U+00A0", "U+FEFF", "U+1680", "U+2000", "U+2001",
   "U+2002", "U+2003", "U+2004", "U+2005", "U+2006", "U+2007", "U+2008", "U+2009",
   "U+200A", "U+202F", "U+205F", "U+3000"} \cup LineTerminators

\* Number of characters at the head of s that are in the set cs.
RECURSIVE LeadingIn(_, _)
LeadingIn(s, cs) ==
  IF s = <<>> \/ Head(s) \notin cs THEN 0 ELSE 1 + LeadingIn(Tail(s), cs)

\* Number of characters at the head of s that are not in the set cs.
RECURSIVE LeadingNotIn(_, _)
LeadingNotIn(s, cs) ==
  IF s = <<>> \/ Head(s) \in cs THEN 0 ELSE 1 + LeadingNotIn(Tail(s), cs)

\* Number of characters at the end of s that are in the set cs.
RECURSIVE TrailingIn(_, _)
TrailingIn(s, cs) ==
  IF s = <<>> \/ s[Len(s)] \notin cs THEN 0
  ELSE 1 + TrailingIn(SubSeq(s, 1, Len(s) - 1), cs)

\* s.trim()
trim(s) ==
  LET a == LeadingIn(s, WhiteChars)
  IN IF a = Len(s) THEN <<>>
     ELSE SubSeq(s, a + 1, Len(s) - TrailingIn(s, WhiteChars))

\* The type names of /^(string|int|float|bool)/.
AttrTypeNames == {Str_string, Str_int, Str_float, Str_bool}

\* The text ' *= *' at the head of s: its length, or -1 when s does not
\* start with blanks, '=' and blanks.
attrAssign_len(s) ==
  LET a == LeadingIn(s, {" "})
  IN IF Len(s) > a /\ s[a + 1] = "="
     THEN a + 1 + LeadingIn(SubSeq(s, a + 2, Len(s)), {" "})
     ELSE -1

\* format = /^(string|int|float|bool) *= *([^ ].*)/ : after the type name and
\* the assignment a character that is no blank must follow.
attrFormat_test(s) ==
  \E t \in AttrTypeNames :
    /\ startsWith(s, t)
    /\ LET r == SubSeq(s, Len(t) + 1, Len(s))
           n == attrAssign_len(r)
       IN n >= 0 /\ Len(r) > n

\* Groups 1 and 2 of format.exec(s): the type name, and the text from the
\* first character after the assignment up to the next line terminator.
attrFormat_exec(s) ==
  LET t    == CHOOSE t \in AttrTypeNames : startsWith(s, t)
      r    == SubSeq(s, Len(t) + 1, Len(s))
      n    == attrAssign_len(r)
      rest == SubSeq(r, n + 2, Len(r))
  IN <<t, <<r[n + 1]>> \o SubSeq(rest, 1, LeadingNotIn(rest, LineTerminators))>>

\* Lines 32-34: at least two characters, and the same quote first and last.
attrString_test(d) ==
  /\ Len(d) >= 2
  /\ \/ d[1] = "'" /\ d[Len(d)] = "'"
     \/ d[1] = "\"" /\ d[Len(d)] = "\""

\* \d+ matched against the whole of s.
IsDigits(s) == Len(s) >= 1 /\ \A i \in 1..Len(s) : IsDigit(s[i])

\* /^(0|-?[1-9]\d*)$/
attrInt_test(d) ==
  \/ d = <<"0">>
  \/ IsPosIntLit(d)
  \/ Len(d) >= 1 /\ d[1] = "-" /\ IsPosIntLit(Tail(d))

\* (0|0\.\d+|\.\d+|[1-9]\d*(\.\d+)?) matched against the whole of s.
attrFloatBody_test(s) ==
  \/ s = <<"0">>
  \/ Len(s) >= 2 /\ s[1] = "0" /\ s[2] = "." /\ IsDigits(SubSeq(s, 3, Len(s)))
  \/ Len(s) >= 1 /\ s[1] = "." /\ IsDigits(Tail(s))
  \/ IsPosIntLit(s)
  \/ LET k == LeadingDigits(s)
     IN /\ k >= 1 /\ s[1] # "0"
        /\ Len(s) >= k + 1 /\ s[k + 1] = "."
        /\ IsDigits(SubSeq(s, k + 2, Len(s)))

\* /^-?(0|0\.\d+|\.\d+|[1-9]\d*(\.\d+)?)$/
attrFloat_test(d) ==
  \/ attrFloatBody_test(d)
  \/ Len(d) >= 1 /\ d[1] = "-" /\ attrFloatBody_test(Tail(d))

\* ['0', '1', 'false', 'true', 'False', 'True'].indexOf(defaultVal) !== -1
attrBool_test(d) ==
  d \in {<<"0">>, <<"1">>, Str_false, Str_true,
         <<"F", "a", "l", "s", "e">>, <<"T", "r", "u", "e">>}

\* A parseAttrType whose default-value errors name the default alone.
parseAttrType_defaultOnly(tok) ==
  IF tok.ty # "string"
  THEN Throw("Invalid attribute type format: ", <<Join(tok.s)>>)
  ELSE IF ~attrFormat_test(tok.s)
  THEN Throw("Invalid attribute type format: ", <<Join(tok.s)>>)
  ELSE LET r          == attrFormat_exec(tok.s)
           type       == r[1]
           defaultVal == trim(r[2])
       IN IF type = Str_string /\ ~attrString_test(defaultVal)
          THEN Throw("Invalid default value for string: ", <<Join(defaultVal)>>)
          ELSE IF type = Str_int /\ ~attrInt_test(defaultVal)
          THEN Throw("Invalid default value for int: ", <<Join(defaultVal)>>)
          ELSE IF type = Str_float /\ ~attrFloat_test(defaultVal)
          THEN Throw("Invalid default value for float: ", <<Join(defaultVal)>>)
          ELSE IF type = Str_bool /\ ~attrBool_test(defaultVal)
          THEN Throw("Invalid default value for bool: ", <<Join(defaultVal)>>)
          ELSE [ok |-> TRUE, type |-> Join(type), defaultVal |-> Join(defaultVal)]

parseAttrType(tok) ==
  IF tok.ty # "string"
  THEN Throw("Invalid attribute type format: ", <<Join(tok.s)>>)
  ELSE IF ~attrFormat_test(tok.s)
  THEN Throw("Invalid attribute type format: ", <<Join(tok.s)>>)
  ELSE LET r          == attrFormat_exec(tok.s)
           type       == r[1]
           defaultVal == trim(r[2])
       IN IF type = Str_string /\ ~attrString_test(defaultVal)
          THEN Throw("Invalid default value for string: ", <<Join(defaultVal), Join(tok.s)>>)
          ELSE IF type = Str_int /\ ~attrInt_test(defaultVal)
          THEN Throw("Invalid default value for int: ", <<Join(defaultVal), Join(tok.s)>>)
          ELSE IF type = Str_float /\ ~attrFloat_test(defaultVal)
          THEN Throw("Invalid default value for float: ", <<Join(defaultVal), Join(tok.s)>>)
          ELSE IF type = Str_bool /\ ~attrBool_test(defaultVal)
          THEN Throw("Invalid default value for bool: ", <<Join(defaultVal), Join(tok.s)>>)
          ELSE [ok |-> TRUE, type |-> Join(type), defaultVal |-> Join(defaultVal)]

(***************************************************************************)
(* parseAttrType applied to one attribute type expression.                 *)
(***************************************************************************)
\* Texts before the assignment: the four type names and other names.
AttrHeads ==
  AttrTypeNames \cup {<<"u", "i", "n", "t", "8">>, <<"I", "n", "t">>,
                      <<" ">> \o Str_int, Str_int \o <<"e", "g", "e", "r">>}

\* Assignments: '=' with and without blanks, and none.
AttrAssigns == {<<"=">>, <<" ", "=", " ">>, <<" ", " ", "=", " ", " ">>, <<>>, <<" ">>}

\* Default texts: none, numbers, booleans, quoted and unquoted strings, and
\* texts with blanks, a tab, a form feed, a no-break space, a line feed and a
\* line separator.
AttrDefaults ==
  {<<>>, <<"0">>, <<"1">>, <<"1", "0">>, <<"-", "1", "0">>, <<"0", "0">>, <<"+", "1">>,
   <<"0", ".", "5">>, <<".", "5">>, <<"1", ".">>, <<"-", "0", ".", "0">>, <<"-", "0">>,
   <<"1", ".", "5", "0">>, <<"0", "1", "2", "3">>,
   <<"T", "R", "U", "E">>, Str_true, <<"F", "a", "l", "s", "e">>,
   <<"'", "a", "'">>, <<"\"", "a", "\"">>, <<"'", "a", "\"">>, <<"a">>, <<"'">>, <<"'", "'">>,
   <<"'", "w", "'", " ", "x">>, <<"1", " ">>, <<"1", " ", "2">>, <<"\t", "1">>,
   <<"1", "\n", "2">>, <<"1", "\f">>, <<"U+00A0", "1">>, <<"1", "U+2028", "2">>}

\* Attribute type expressions for parseAttrType: every head, assignment and
\* default text, and a number.
AttrToks ==
  { StrTok(h \o a \o d) : h \in AttrHeads, a \in AttrAssigns, d \in AttrDefaults }
  \cup { NumTok(<<"1">>) }

InitAttr ==
  /\ shape \in { <<t>> : t \in AttrToks }
  /\ op = "none"
  /\ result = NotCalled

ParseAttrType ==
  /\ Len(shape) = 1
  /\ op' = "parseAttrType"
  /\ result' = parseAttrType(shape[1])
  /\ UNCHANGED shape

NextAttr == ParseAttrType

SpecAttr == InitAttr /\ [][NextAttr]_vars

(***************************************************************************)
(* The four parsers together: each applied to a shape array or to one      *)
(* token of any of the three kinds.                                        *)
(***************************************************************************)
InitAll ==
  /\ shape \in Shapes \cup { <<t>> : t \in DataToks \cup DimToks \cup AttrToks }
  /\ op = "none"
  /\ result = NotCalled

NextAll == Next \/ NextData \/ NextDim \/ NextAttr

SpecAll == InitAll /\ [][NextAll]_vars

(***************************************************************************)
(* lib/utils.js: parseDimDtor, parseDataDtor, getTfRank, getCvRank, as     *)
(* lib/generator.js requires them.                                         *)
(***************************************************************************)
utils_parseDimDtor(tok) ==
  IF tok.ty # "string" /\ ~isInteger(tok)
  THEN Throw("Invalid dimensional descriptor format: ", <<Join(tok.s)>>)
  ELSE IF format1_test(tok.s)
  THEN LET r == format1_exec(tok.s) IN
       IF r[2] # Str_none /\ parseInt(r[2]) < 1
       THEN Throw("Invalid dimensional descriptor format: dimension should > 0", <<>>)
       ELSE [ok |-> TRUE, type |-> Join(r[1]),
             dims |-> IF r[2] = Str_none THEN NoneDims ELSE parseInt(r[2])]
  ELSE IF format2_test(tok.s)
  THEN IF tok.s # Str_none /\ parseInt(tok.s) < 1
       THEN Throw("Invalid dimensional descriptor format: dimension should > 0", <<>>)
       ELSE [ok |-> TRUE, type |-> "mat",
             dims |-> IF tok.s = Str_none THEN NoneDims ELSE parseInt(tok.s)]
  ELSE Throw("Invalid dimensional descriptor format: ", <<Join(tok.s)>>)

utils_parseDataDtor(tok) ==
  IF tok.ty # "string"
  THEN Throw("Invalid data descriptor format: ", <<Join(tok.s)>>)
  ELSE LET str == tok.s IN
  IF dtypeFormat1_test(str)
  THEN LET r        == dtypeFormat1_exec(str)
           channels == r[3]
           depth    == Join(r[1]) \o Join(r[2])
       IN IF tooManyChannels(channels)
          THEN Throw("Invalid Data Cell format of channel: expect number between 1, 4 but get ",
                     <<Join(channels), Join(str)>>)
          ELSE IF ~IsDepthCode(depth)
          THEN Throw("Invalid Data Cell format of depth: ", <<depth, Join(str)>>)
          ELSE [ok |-> TRUE, format |-> "cv", type |-> depth,
                channels |-> parseInt(channels), toOrigStr |-> Join(str)]
  ELSE IF dtypeFormat2_test(str)
  THEN LET r     == dtypeFormat2_exec(str)
           depth == Join(r[1]) \o Join(r[2])
       IN IF ~IsDepthCode(depth)
          THEN Throw("Invalid Data Cell format of depth: ", <<depth, Join(str)>>)
          ELSE [ok |-> TRUE, format |-> "cv", type |-> depth,
                channels |-> 1, toOrigStr |-> Join(str)]
  ELSE IF stdFormat_test(str)
  THEN [ok |-> TRUE, format |-> "std", type |-> Join(str),
        channels |-> 1, toOrigStr |-> Join(str)]
  ELSE Throw("Invalid data descriptor format: ", <<Join(str)>>)

\* shape.slice(0, shape.length - 1).forEach(parseDimDtor): the error of the
\* first dimension token that fails, or no error.
utils_validateDims(sh) ==
  LET failed == {i \in 1..(Len(sh) - 1) : ~utils_parseDimDtor(sh[i]).ok}
  IN IF failed = {} THEN [ok |-> TRUE]
     ELSE utils_parseDimDtor(sh[CHOOSE i \in failed : \A j \in failed : i <= j])

\* A getTfRank that counts no dimension for the channels.
utils_getTfRank_noChannels(sh) ==
  IF Len(sh) = 0 THEN Throw("Invalid shape format: empty shape array.", <<>>)
  ELSE LET dtor == utils_parseDataDtor(sh[Len(sh)])
       IN IF ~dtor.ok THEN dtor
          ELSE IF Len(sh) = 1
          THEN IF dtor.format = "cv" /\ dtor.channels > 1
               THEN Throw("Invalid shape format: rank 0 with multichannel is not allowed.", <<>>)
               ELSE [ok |-> TRUE, value |-> 0]
          ELSE IF ~utils_validateDims(sh).ok THEN utils_validateDims(sh)
          ELSE [ok |-> TRUE, value |-> Len(sh) - 1]

utils_getTfRank(sh) ==
  IF Len(sh) = 0 THEN Throw("Invalid shape format: empty shape array.", <<>>)
  ELSE LET dtor == utils_parseDataDtor(sh[Len(sh)])
       IN IF ~dtor.ok THEN dtor
          ELSE IF Len(sh) = 1
          THEN IF dtor.format = "cv" /\ dtor.channels > 1
               THEN Throw("Invalid shape format: rank 0 with multichannel is not allowed.", <<>>)
               ELSE [ok |-> TRUE, value |-> 0]
          ELSE IF ~utils_validateDims(sh).ok THEN utils_validateDims(sh)
          ELSE LET cvRank == Len(sh) - 1
               IN IF dtor.format = "cv"
                  THEN IF dtor.channels = 1
                       THEN [ok |-> TRUE, value |-> cvRank]
                       ELSE [ok |-> TRUE, value |-> cvRank + 1]
                  ELSE [ok |-> TRUE, value |-> cvRank]

utils_getCvRank(sh) ==
  IF Len(sh) = 0 THEN Throw("Invalid shape format: empty shape array.", <<>>)
  ELSE LET dtor == utils_parseDataDtor(sh[Len(sh)])
       IN IF ~dtor.ok THEN dtor
          ELSE IF Len(sh) = 1
          THEN IF dtor.format = "cv" /\ dtor.channels > 1
               THEN Throw("Invalid shape format: rank 0 with multichannel is not allowed.", <<>>)
               ELSE [ok |-> TRUE, value |-> 0]
          ELSE IF ~utils_validateDims(sh).ok THEN utils_validateDims(sh)
          ELSE [ok |-> TRUE, value |-> Len(sh) - 1]

(***************************************************************************)
(* lib/generator.js: parseShape                                            *)
(***************************************************************************)
VEC_OF_CV == "VEC_OF_CV"

generator_parseShape(sh) ==
  IF Len(sh) = 0 THEN Throw("Invalid shape format: empty shape array.", <<>>)
  ELSE
  LET lastElemIdx    == Len(sh) - 1
      origDataDtor   == sh[lastElemIdx + 1]
      origDimDtorArr == slice(sh, 0, lastElemIdx)
      dataDtor       == utils_parseDataDtor(origDataDtor)
      dimDtorArr     == [i \in 1..Len(origDimDtorArr) |-> utils_parseDimDtor(origDimDtorArr[i])]
  IN IF ~dataDtor.ok THEN dataDtor
     ELSE IF ~utils_validateDims(sh).ok THEN utils_validateDims(sh)
     ELSE IF ~utils_getTfRank(sh).ok THEN utils_getTfRank(sh)
     ELSE
     LET tfRank     == utils_getTfRank(sh).value
         cvRank     == utils_getCvRank(sh).value
         lastVecIdx == lastIndexOf(dimDtorArr,
                         [item \in {dimDtorArr[i] : i \in 1..Len(dimDtorArr)} |->
                            item.type = "vector"])
         vecDims    == lastVecIdx + 1
         matDims    == cvRank - vecDims
         r == [ok |-> TRUE, dataDtor |-> dataDtor, dimDtorArr |-> dimDtorArr,
               tfRank |-> tfRank, cvRank |-> cvRank,
               vecDims |-> vecDims, matDims |-> matDims]
     IN IF matOfVector(dimDtorArr, lastVecIdx)
        THEN Throw("Invalid shape format: Mat of vector or vector of Mat of vector is not allowed", <<>>)
        ELSE IF lastVecIdx # -1
        THEN IF vecDims = cvRank
             THEN IF dataDtor.format = "cv" /\ dataDtor.channels > 1
                  THEN r @@
                       [type |-> VEC_OF_CV,
                        typeDecStr |-> declareVec("Vec<" \o cvToStd(dataDtor.type).value \o ", "
                                                    \o Join(IntToChars(dataDtor.channels)) \o ">",
                                                  vecDims)]
                  ELSE LET dtype == IF dataDtor.format = "cv"
                                    THEN cvToStd(dataDtor.type).value ELSE dataDtor.type
                       IN r @@ [type |-> VEC_OF_PRIM,
                                typeDecStr |-> declareVec(dtype, vecDims)]
             ELSE r @@ [type |-> VEC_OF_MAT, typeDecStr |-> declareVec("Mat", vecDims)]
        ELSE r @@ [type |-> MAT, typeDecStr |-> "Mat"]

(***************************************************************************)
(* lib/utils.js: expandArrayAccessor, expandArgus.  An argument that may   *)
(* be left out is <<>> when undefined and <<n>> when the integer n.        *)
(***************************************************************************)
\* String(n) for an integer n, as a text.
IntStr(n) == IF n < 0 THEN "-" \o Join(IntToChars(-n)) ELSE Join(IntToChars(n))

\* lodash.range(start, end), end undefined meaning range(0, start).
range(start, end) ==
  LET a == IF end = <<>> THEN 0 ELSE start[1]
      b == IF end = <<>> THEN start[1] ELSE end[1]
  IN IF a <= b THEN [i \in 1..(b - a) |-> a + i - 1]
     ELSE [i \in 1..(a - b) |-> a - i + 1]

\* The array expandArgus joins: template followed by each index.
expandArgusList(template, start, end) ==
  [i \in 1..Len(range(start, end)) |-> template \o IntStr(range(start, end)[i])]

expandArgus(template, start, end) ==
  IF start = <<>>
  THEN Throw("[expandArgus] Invalid parameters: start index ", <<Undefined>>)
  ELSE [ok |-> TRUE, value |-> join(expandArgusList(template, start, end), ", ")]

expandArrayAccessor(template, start, end) ==
  IF start = <<>>
  THEN Throw("[expandArrayAccessor] Invalid parameters: start index ", <<Undefined>>)
  ELSE [ok |-> TRUE,
        value |-> join([i \in 1..Len(range(start, end)) |->
                          "[" \o template \o IntStr(range(start, end)[i]) \o "]"], "")]

(***************************************************************************)
(* lib/generator.js: the template variables, rendered for a name.          *)
(***************************************************************************)
nameVar(name)       == name
tensorInVar(name)   == name \o "_in"
tensorOutVar(name)  == name \o "_out"
dataInVar(name)     == name \o "_in_data"
dataOutVar(name)    == name \o "_out_data"
cvVar(name)         == name \o "_cv"
dimVar(name)        == name \o "_dims_"
dimSizeInVar(name)  == name \o "_in_dims_sz_"
dimSizeOutVar(name) == name \o "_out_dims_sz_"
cvShapeVar(name)    == name \o "_cv_shape"

\* A generated text is the sequence of its lines; each line has the kind of
\* the statement it comes from and its text.
Line(kind, text) == [kind |-> kind, text |-> text]

\* The lines of `${p}${lines}`: the text p in front of the first line.
Prefix(p, lines) == [i \in 1..Len(lines) |->
                       IF i = 1 THEN [lines[i] EXCEPT !.text = p \o @] ELSE lines[i]]

\* A text returned, as its lines.
Code(lines) == [ok |-> TRUE, lines |-> lines]

\* A loop nest whose every loop is bounded by the size variable of axis 0.
forLoop_firstSize(name, start, sizeVar, bodyIndent, closeIndent, body) ==
  LET d == dimVar(name) \o IntStr(start)
  IN <<[kind |-> "for", level |-> start,
        index |-> d, bound |-> sizeVar \o "0",
        text |-> "for (int " \o d \o " = 0; " \o d \o " < " \o sizeVar \o "0"
                  \o "; " \o d \o "++) {"]>>
     \o Prefix(bodyIndent, body)
     \o <<Line("close", closeIndent \o "}")>>

\* The for statement of level start around the lines of its body, with the
\* size variable sizeVar and the indentations of the template.
forLoop(name, start, sizeVar, bodyIndent, closeIndent, body) ==
  LET d == dimVar(name) \o IntStr(start)
  IN <<[kind |-> "for", level |-> start,
        index |-> d, bound |-> sizeVar \o IntStr(start),
        text |-> "for (int " \o d \o " = 0; " \o d \o " < " \o sizeVar \o IntStr(start)
                  \o "; " \o d \o "++) {"]>>
     \o Prefix(bodyIndent, body)
     \o <<Line("close", closeIndent \o "}")>>

(***************************************************************************)
(* lib/generator.js: computeInputFn                                        *)
(***************************************************************************)
\* The guard of lines 445, 485 and 530 for the first `dims` indices.
isnanGuard(name, dims) ==
  [kind |-> "guard", dims |-> dims,
   reads |-> <<expandArgusList(dimVar(name), <<dims>>, <<>>) \o <<"0">>>>,
   text |-> "if (isnan(" \o dataInVar(name) \o "("
            \o expandArgus(dimVar(name), <<dims>>, <<>>).value \o ", 0" \o "))) { break; }"]

RECURSIVE computeInputFn_loopVecOfCv(_, _, _, _)
computeInputFn_loopVecOfCv(name, start, end, dataDtor) ==
  IF start = end
  THEN LET argus == expandArgus(dimVar(name), <<end>>, <<>>).value
           l     == join([c \in 1..dataDtor.channels |->
                            dataInVar(name) \o "(" \o argus \o ", " \o IntStr(c - 1) \o ")"], ", ")
           data  == "Vec<" \o cvToStd(dataDtor.type).value \o ", "
                    \o IntStr(dataDtor.channels) \o ">(" \o l \o ")"
       IN Code(<<isnanGuard(name, end),
                 [kind |-> "push",
                  at |-> expandArgusList(dimVar(name), <<end - 1>>, <<>>),
                  reads |-> [c \in 1..dataDtor.channels |->
                               expandArgusList(dimVar(name), <<end>>, <<>>) \o <<IntStr(c - 1)>>],
                  text |-> "        " \o cvVar(name)
                           \o expandArrayAccessor(dimVar(name), <<end - 1>>, <<>>).value
                           \o ".push_back(" \o data \o ");"]>>)
  ELSE LET inner == computeInputFn_loopVecOfCv(name, start + 1, end, dataDtor)
       IN IF ~inner.ok THEN inner
          ELSE Code(forLoop(name, start, dimSizeInVar(name), "        ", "      ", inner.lines))

RECURSIVE computeInputFn_loopVecOfPrim(_, _, _)
computeInputFn_loopVecOfPrim(name, start, end) ==
  IF start = end
  THEN LET guardStr == IF end > 1 THEN isnanGuard(name, end) ELSE Line("blank", "")
           data     == dataInVar(name) \o "(" \o expandArgus(dimVar(name), <<end>>, <<>>).value \o ")"
       IN Code(<<guardStr,
                 [kind |-> "push",
                  at |-> expandArgusList(dimVar(name), <<end - 1>>, <<>>),
                  reads |-> <<expandArgusList(dimVar(name), <<end>>, <<>>)>>,
                  text |-> "        " \o cvVar(name)
                           \o expandArrayAccessor(dimVar(name), <<end - 1>>, <<>>).value
                           \o ".push_back(" \o data \o ");"]>>)
  ELSE LET inner == computeInputFn_loopVecOfPrim(name, start + 1, end)
       IN IF ~inner.ok THEN inner
          ELSE Code(forLoop(name, start, dimSizeInVar(name), "        ", "      ", inner.lines))

\* The copy statements of loopMat at its innermost level, lines 586-596.
computeInputFn_copyMat(name, end, dataDtor, cvStartOffset, newCvVar) ==
  LET cvArgus   == expandArgus(dimVar(name), cvStartOffset, <<end>>)
      dataList  == expandArgusList(dimVar(name), <<end>>, <<>>)
      dataArgus == join(dataList, ", ")
      target    == IF newCvVar # <<>> THEN newCvVar[1] ELSE cvVar(name)
  IN IF ~cvArgus.ok THEN cvArgus
     ELSE IF ~cvToStd(dataDtor.type).ok THEN cvToStd(dataDtor.type)
     ELSE IF dataDtor.channels = 1
     THEN Code(<<[kind |-> "copy", chan |-> <<>>, arrayArgs |-> dataList,
                  reads |-> <<dataList>>, target |-> target,
                  elemType |-> cvToStd(dataDtor.type).value,
                  cvArgs |-> expandArgusList(dimVar(name), cvStartOffset, <<end>>),
                  chanSel |-> "none",
                  text |-> target \o ".at<" \o cvToStd(dataDtor.type).value \o ">("
                           \o cvArgus.value \o ") = " \o dataInVar(name)
                           \o "(" \o dataArgus \o ");"]>>)
     ELSE IF dataDtor.channels > 1
     THEN Code([c \in 1..dataDtor.channels |->
                 [kind |-> "copy", chan |-> <<c - 1>>,
                  arrayArgs |-> dataList \o <<IntStr(c - 1)>>,
                  reads |-> <<dataList \o <<IntStr(c - 1)>>>>, target |-> target,
                  elemType |-> "Vec<" \o cvToStd(dataDtor.type).value \o ", "
                               \o IntStr(dataDtor.channels) \o ">",
                  cvArgs |-> expandArgusList(dimVar(name), cvStartOffset, <<end>>),
                  chanSel |-> "subscript",
                  text |-> target \o ".at<Vec<" \o cvToStd(dataDtor.type).value \o ", "
                           \o IntStr(dataDtor.channels) \o ">>(" \o cvArgus.value \o ")["
                           \o IntStr(c - 1) \o "] = " \o dataInVar(name)
                           \o "(" \o dataArgus \o ", " \o IntStr(c - 1) \o ");"]])
     ELSE Throw("Invalid channel number: ", <<IntStr(dataDtor.channels)>>)

RECURSIVE computeInputFn_loopMat(_, _, _, _, _, _)
computeInputFn_loopMat(name, start, end, dataDtor, cvStartOffset, newCvVar) ==
  IF start = end
  THEN computeInputFn_copyMat(name, end, dataDtor, cvStartOffset, newCvVar)
  ELSE LET inner == computeInputFn_loopMat(name, start + 1, end, dataDtor, cvStartOffset, newCvVar)
       IN IF ~inner.ok THEN inner
          ELSE Code(forLoop(name, start, dimSizeInVar(name), "        ", "      ", inner.lines))

RECURSIVE computeInputFn_loopVecOfMat(_, _, _, _, _)
computeInputFn_loopVecOfMat(name, start, vecDims, matDims, dataDtor) ==
  IF start = vecDims
  THEN LET guardStr == IF vecDims > 1 THEN isnanGuard(name, vecDims) ELSE Line("blank", "")
           tempVar  == "mat"
           type     == IF dataDtor.channels > 1
                       THEN "CV_" \o dataDtor.type \o "C" \o IntStr(dataDtor.channels)
                       ELSE "CV_" \o dataDtor.type
           mat      == computeInputFn_loopMat(name, vecDims, matDims + vecDims, dataDtor,
                                              <<vecDims>>, <<tempVar>>)
       IN IF ~mat.ok THEN mat
          ELSE Code(<<guardStr,
                      [kind |-> "alloc", dims |-> matDims, shapeVar |-> cvShapeVar(name),
                       text |-> "        Mat " \o tempVar \o "(" \o IntStr(matDims) \o ", "
                                \o cvShapeVar(name) \o ", " \o type \o ");"]>>
                    \o Prefix("        ", mat.lines)
                    \o <<[kind |-> "push",
                          at |-> expandArgusList(dimVar(name), <<vecDims - 1>>, <<>>),
                          reads |-> <<>>,
                          text |-> "        " \o cvVar(name)
                                   \o expandArrayAccessor(dimVar(name), <<vecDims - 1>>, <<>>).value
                                   \o ".push_back(" \o tempVar \o ");"]>>)
  ELSE LET inner == computeInputFn_loopVecOfMat(name, start + 1, vecDims, matDims, dataDtor)
       IN IF ~inner.ok THEN inner
          ELSE Code(forLoop(name, start, dimSizeInVar(name), "        ", "      ", inner.lines))

\* The size variable of every axis of the tensor, lines 365-369.
declareTfDimSize(name, rank) ==
  [i \in 1..rank |->
     [kind |-> "sizeIn", idx |-> i - 1, var |-> dimSizeInVar(name) \o IntStr(i - 1),
      text |-> "const int32 " \o dimSizeInVar(name) \o IntStr(i - 1)
               \o " = static_cast<int32>(" \o tensorInVar(name)
               \o ".dim_size(" \o IntStr(i - 1) \o "));"]]

\* The scalar type of the tensor, lines 358-359 and 695-696.
tensorDtype(dataDtor) ==
  IF dataDtor.format = "cv" THEN cvToStd(dataDtor.type)
  ELSE [ok |-> TRUE, value |-> dataDtor.type]

convertTensorToCvByShape(name, pShape) ==
  LET dataDtor   == pShape.dataDtor
      cvRank     == pShape.cvRank
      vecInitStr == IF pShape.vecDims > 1 THEN "(" \o dimSizeInVar(name) \o "0" \o ")" ELSE ""
      vecDeclare == <<[kind |-> "declare",
                        presize |-> IF pShape.vecDims > 1
                                    THEN <<dimSizeInVar(name) \o "0">> ELSE <<>>,
                        text |-> pShape.typeDecStr \o " " \o cvVar(name) \o vecInitStr \o ";"]>>
  IN CASE pShape.type = VEC_OF_CV ->
            LET loop == computeInputFn_loopVecOfCv(name, 0, cvRank, dataDtor)
            IN IF ~loop.ok THEN loop
               ELSE Code(vecDeclare \o Prefix("    ", loop.lines))
       [] pShape.type = VEC_OF_PRIM ->
            LET loop == computeInputFn_loopVecOfPrim(name, 0, cvRank)
            IN IF ~loop.ok THEN loop
               ELSE Code(vecDeclare \o Prefix("    ", loop.lines))
       [] pShape.type = VEC_OF_MAT ->
            LET loop == computeInputFn_loopVecOfMat(name, 0, pShape.vecDims, pShape.matDims, dataDtor)
            IN IF ~loop.ok THEN loop
               ELSE Code(vecDeclare
                         \o <<[kind |-> "shapeArr", var |-> cvShapeVar(name),
                               sizes |-> expandArgusList(dimSizeInVar(name),
                                                         <<pShape.vecDims>>, <<cvRank>>),
                               text |-> "    int " \o cvShapeVar(name) \o "[] = { "
                                        \o expandArgus(dimSizeInVar(name),
                                                        <<pShape.vecDims>>, <<cvRank>>).value
                                        \o " };"]>>
                         \o Prefix("        ", loop.lines))
       [] pShape.type = MAT ->
            LET matDtype == IF dataDtor.format = "cv"
                            THEN [ok |-> TRUE, value |-> dataDtor.toOrigStr]
                            ELSE stdToCv(dataDtor.toOrigStr)
                loop     == computeInputFn_loopMat(name, 0, cvRank, dataDtor, <<>>, <<>>)
            IN IF ~matDtype.ok THEN matDtype
               ELSE IF ~loop.ok THEN loop
               ELSE Code(<<[kind |-> "shapeArr", var |-> nameVar(name) \o "_shape",
                            sizes |-> expandArgusList(dimSizeInVar(name), <<cvRank>>, <<>>),
                            text |-> "const int " \o nameVar(name) \o "_shape[] = { "
                                     \o expandArgus(dimSizeInVar(name), <<cvRank>>, <<>>).value
                                     \o " };"],
                           Line("declare", "        " \o pShape.typeDecStr \o " " \o cvVar(name)
                                  \o "(" \o IntStr(cvRank) \o ", " \o nameVar(name) \o "_shape, "
                                  \o matDtype.value \o ");")>>
                         \o Prefix("    ", loop.lines))

\* `port` is the object the template binds as `this`: name, regIdx, pShape.
computeInputFn(port) ==
  LET name  == port.name
      rank  == IntStr(port.pShape.tfRank)
      dtype == tensorDtype(port.pShape.dataDtor)
      dec   == declareTfDimSize(name, port.pShape.tfRank)
      cvt   == convertTensorToCvByShape(name, port.pShape)
  IN IF ~dtype.ok THEN dtype
     ELSE IF ~cvt.ok THEN cvt
     ELSE Code(<<Line("blank", ""),
                 Line("tensor", "  const Tensor& " \o tensorInVar(name) \o " = context->input("
                                \o IntStr(port.regIdx) \o ");"),
                 Line("require", "  OP_REQUIRES(context, " \o tensorInVar(name) \o ".dims() == "
                                 \o rank \o ","),
                 Line("require", "              errors::InvalidArgument(\"" \o name \o " must be "
                                 \o rank \o "-dimensional\","),
                 Line("require", "              " \o tensorInVar(name) \o ".shape().DebugString()));"),
                 Line("data", "  auto " \o dataInVar(name) \o " = " \o tensorInVar(name)
                              \o ".tensor<" \o dtype.value \o ", " \o rank \o ">();")>>
               \o (IF dec = <<>> THEN <<Line("blank", "  ")>> ELSE Prefix("  ", dec))
               \o Prefix("  ", cvt.lines)
               \o <<Line("blank", "  ")>>)

(***************************************************************************)
(* lib/generator.js: computeOutputFn                                       *)
(***************************************************************************)
\* expand(length) of declareCvDimSize: '[0]' length times.
expandFirst(length) == join([i \in 1..length |-> "[0]"], "")

declareCvDimSize(name, pShape) ==
  LET vecDims == pShape.vecDims
      matDims == pShape.matDims
      vecPart == [i \in 1..vecDims |->
                    [kind |-> "sizeOut", idx |-> i - 1, probe |-> i - 1,
                     var |-> dimSizeOutVar(name) \o IntStr(i - 1),
                     text |-> "const int32 " \o dimSizeOutVar(name) \o IntStr(i - 1)
                              \o " = static_cast<int32>(" \o cvVar(name)
                              \o expandFirst(i - 1) \o ".size());"]]
      matPart == [i \in 1..matDims |->
                    [kind |-> "sizeOut", idx |-> vecDims + i - 1, probe |-> vecDims,
                     var |-> dimSizeOutVar(name) \o IntStr(vecDims + i - 1),
                     text |-> "const int32 " \o dimSizeOutVar(name) \o IntStr(vecDims + i - 1)
                              \o " = static_cast<int32>(" \o cvVar(name)
                              \o expandFirst(vecDims) \o ".size[" \o IntStr(i - 1) \o "]);"]]
      chPart  == IF pShape.dataDtor.channels > 1
                 THEN <<[kind |-> "sizeOut", idx |-> vecDims + matDims, probe |-> vecDims,
                         var |-> dimSizeOutVar(name) \o IntStr(vecDims + matDims),
                         text |-> "const int32 " \o dimSizeOutVar(name) \o IntStr(vecDims + matDims)
                                  \o " = static_cast<int32>(" \o cvVar(name)
                                  \o expandFirst(vecDims)
                                  \o (IF pShape.type = VEC_OF_CV THEN ".channels);"
                                      ELSE ".channels());")]>>
                 ELSE <<>>
  IN vecPart \o matPart \o chPart

RECURSIVE computeOutputFn_loopVecOfCv(_, _, _, _)
computeOutputFn_loopVecOfCv(name, start, end, dataDtor) ==
  IF start = end
  THEN Code([c \in 1..dataDtor.channels |->
               [kind |-> "copy", chan |-> <<c - 1>>,
                arrayArgs |-> expandArgusList(dimVar(name), <<end>>, <<>>) \o <<IntStr(c - 1)>>,
                text |-> dataOutVar(name) \o "(" \o expandArgus(dimVar(name), <<end>>, <<>>).value
                         \o ", " \o IntStr(c - 1) \o ") = " \o cvVar(name)
                         \o expandArrayAccessor(dimVar(name), <<end>>, <<>>).value
                         \o "[" \o IntStr(c - 1) \o "];"]])
  ELSE LET inner == computeOutputFn_loopVecOfCv(name, start + 1, end, dataDtor)
       IN IF ~inner.ok THEN inner
          ELSE Code(forLoop(name, start, dimSizeOutVar(name), "      ", "      ", inner.lines))

RECURSIVE computeOutputFn_loopVecOfPrim(_, _, _)
computeOutputFn_loopVecOfPrim(name, start, end) ==
  IF start = end
  THEN Code(<<[kind |-> "copy", chan |-> <<>>,
               arrayArgs |-> expandArgusList(dimVar(name), <<end>>, <<>>),
               text |-> dataOutVar(name) \o "(" \o expandArgus(dimVar(name), <<end>>, <<>>).value
                        \o ") = " \o cvVar(name)
                        \o expandArrayAccessor(dimVar(name), <<end>>, <<>>).value \o ";"]>>)
  ELSE LET inner == computeOutputFn_loopVecOfPrim(name, start + 1, end)
       IN IF ~inner.ok THEN inner
          ELSE Code(forLoop(name, start, dimSizeOutVar(name), "      ", "      ", inner.lines))

\* The copy statements of the output loopVecOfMat at its innermost level,
\* lines 848-858.
computeOutputFn_copyVecOfMat(name, end, vecDims, dataDtor) ==
  LET dtype    == tensorDtype(dataDtor)
      dataList == expandArgusList(dimVar(name), <<end>>, <<>>)
      elem     == cvVar(name) \o expandArrayAccessor(dimVar(name), <<vecDims>>, <<>>).value
  IN IF ~dtype.ok THEN dtype
     ELSE IF dataDtor.channels = 1
     THEN Code(<<[kind |-> "copy", chan |-> <<>>, arrayArgs |-> dataList,
                  elemType |-> dtype.value,
                  cvArgs |-> expandArgusList(dimVar(name), <<vecDims>>, <<end>>),
                  chanSel |-> "none",
                  text |-> dataOutVar(name) \o "(" \o join(dataList, ", ") \o ") = " \o elem
                           \o ".at<" \o dtype.value \o ">("
                           \o expandArgus(dimVar(name), <<vecDims>>, <<end>>).value \o ");"]>>)
     ELSE IF dataDtor.channels > 1
     THEN LET argus == IF vecDims < end
                       THEN expandArgus(dimVar(name), <<vecDims>>, <<end>>).value \o ", "
                       ELSE ""
          IN Code([c \in 1..dataDtor.channels |->
                     [kind |-> "copy", chan |-> <<c - 1>>,
                      arrayArgs |-> dataList \o <<IntStr(c - 1)>>,
                      elemType |-> dtype.value,
                      cvArgs |-> expandArgusList(dimVar(name), <<vecDims>>, <<end>>),
                      chanSel |-> "index",
                      text |-> dataOutVar(name) \o "(" \o join(dataList, ", ") \o ", "
                               \o IntStr(c - 1) \o ") = " \o elem \o ".at<" \o dtype.value
                               \o ">(" \o argus \o IntStr(c - 1) \o ");"]])
     ELSE Throw("Invalid channel number: ", <<IntStr(dataDtor.channels)>>)

RECURSIVE computeOutputFn_loopVecOfMat(_, _, _, _, _)
computeOutputFn_loopVecOfMat(name, start, end, vecDims, dataDtor) ==
  IF start = end
  THEN computeOutputFn_copyVecOfMat(name, end, vecDims, dataDtor)
  ELSE LET inner == computeOutputFn_loopVecOfMat(name, start + 1, end, vecDims, dataDtor)
       IN IF ~inner.ok THEN inner
          ELSE Code(forLoop(name, start, dimSizeOutVar(name), "      ", "      ", inner.lines))

\* The copy statements of the output loopMat at its innermost level,
\* lines 868-877.
computeOutputFn_copyMat(name, end, dataDtor) ==
  LET dtype    == tensorDtype(dataDtor)
      dataList == expandArgusList(dimVar(name), <<end>>, <<>>)
  IN IF ~dtype.ok THEN dtype
     ELSE IF dataDtor.channels = 1
     THEN Code(<<[kind |-> "copy", chan |-> <<>>, arrayArgs |-> dataList,
                  elemType |-> dtype.value, cvArgs |-> dataList, chanSel |-> "none",
                  text |-> dataOutVar(name) \o "(" \o join(dataList, ", ") \o ") = "
                           \o cvVar(name) \o ".at<" \o dtype.value \o ">("
                           \o join(dataList, ", ") \o ");"]>>)
     ELSE IF dataDtor.channels > 1
     THEN Code([c \in 1..dataDtor.channels |->
                  [kind |-> "copy", chan |-> <<c - 1>>,
                   arrayArgs |-> dataList \o <<IntStr(c - 1)>>,
                   elemType |-> dtype.value, cvArgs |-> dataList, chanSel |-> "index",
                   text |-> dataOutVar(name) \o "(" \o join(dataList, ", ") \o ", "
                            \o IntStr(c - 1) \o ") = " \o cvVar(name) \o ".at<" \o dtype.value
                            \o ">(" \o join(dataList, ", ") \o ", " \o IntStr(c - 1) \o ");"]])
     ELSE Throw("Invalid channel number: ", <<IntStr(dataDtor.channels)>>)

RECURSIVE computeOutputFn_loopMat(_, _, _, _)
computeOutputFn_loopMat(name, start, end, dataDtor) ==
  IF start = end
  THEN computeOutputFn_copyMat(name, end, dataDtor)
  ELSE LET inner == computeOutputFn_loopMat(name, start + 1, end, dataDtor)
       IN IF ~inner.ok THEN inner
          ELSE Code(forLoop(name, start, dimSizeOutVar(name), "      ", "      ", inner.lines))

convertCvToTensorByShape(name, pShape) ==
  CASE pShape.type = VEC_OF_CV ->
         computeOutputFn_loopVecOfCv(name, 0, pShape.cvRank, pShape.dataDtor)
    [] pShape.type = VEC_OF_PRIM ->
         computeOutputFn_loopVecOfPrim(name, 0, pShape.cvRank)
    [] pShape.type = VEC_OF_MAT ->
         computeOutputFn_loopVecOfMat(name, 0, pShape.cvRank, pShape.vecDims, pShape.dataDtor)
    [] pShape.type = MAT ->
         computeOutputFn_loopMat(name, 0, pShape.cvRank, pShape.dataDtor)

computeOutputFn(port) ==
  LET name  == port.name
      rank  == IntStr(port.pShape.tfRank)
      tfShapeArgus == join([i \in 1..port.pShape.tfRank |->
                              dimSizeOutVar(name) \o IntStr(i - 1)], ", ")
      dtype == tensorDtype(port.pShape.dataDtor)
      dec   == declareCvDimSize(name, port.pShape)
      cvt   == convertCvToTensorByShape(name, port.pShape)
  IN IF ~dtype.ok THEN dtype
     ELSE IF ~cvt.ok THEN cvt
     ELSE Code(<<Line("blank", "")>>
               \o (IF dec = <<>> THEN <<Line("blank", "  ")>>
                   ELSE Prefix("  ", dec) \o <<Line("blank", "")>>)
               \o <<Line("tensorOut", "  Tensor *" \o tensorOutVar(name) \o ";"),
                    [kind |-> "allocate",
                     sizes |-> [i \in 1..port.pShape.tfRank |->
                                  dimSizeOutVar(name) \o IntStr(i - 1)],
                     text |-> "  OP_REQUIRES_OK(context, context->allocate_output("
                              \o IntStr(port.regIdx) \o ", TensorShape({ " \o tfShapeArgus
                              \o " }), &" \o tensorOutVar(name) \o "));"],
                    Line("dataOut", "  auto " \o dataOutVar(name) \o " = " \o tensorOutVar(name)
                                    \o "->tensor<" \o dtype.value \o ", " \o rank \o ">();")>>
               \o Prefix("  ", cvt.lines)
               \o <<Line("blank", "  ")>>)

(***************************************************************************)
(* lib/generator.js: registerOpShapeFn                                     *)
(***************************************************************************)
kUnknownDim == "InferenceContext::kUnknownDim"

getDim(dimDtor) ==
  LET dimStr == utils_parseDimDtor(dimDtor).dims
  IN IF dimStr = NoneDims THEN kUnknownDim ELSE IntStr(dimStr)

\* The shape expression: its form, its dimension entries in order, and its
\* text inside c->set_output.
ShapeExpr(regIdx, form, entries, shapeStr) ==
  [ok |-> TRUE, form |-> form, entries |-> entries,
   text |-> "c->set_output(" \o IntStr(regIdx) \o ", " \o shapeStr \o ");"]

\* `port` is the object the template binds as `this`: regIdx, shape.
registerOpShapeFn(port) ==
  LET sh     == port.shape
      tfRank == utils_getTfRank(sh)
  IN IF ~tfRank.ok THEN tfRank
     ELSE IF tfRank.value = 0
     THEN ShapeExpr(port.regIdx, "Scalar", <<>>, "c->Scalar()")
     ELSE IF tfRank.value = 1
     THEN ShapeExpr(port.regIdx, "Vector", <<getDim(sh[1])>>,
                    "c->Vector(" \o getDim(sh[1]) \o ")")
     ELSE IF tfRank.value = 2
     THEN LET dtor   == utils_parseDataDtor(sh[Len(sh)])
              secDim == IF dtor.channels = 1 THEN getDim(sh[2]) ELSE IntStr(dtor.channels)
          IN ShapeExpr(port.regIdx, "Matrix", <<getDim(sh[1]), secDim>>,
                       "c->Matrix(" \o getDim(sh[1]) \o ", " \o secDim \o ")")
     ELSE IF tfRank.value >= 3
     THEN LET dtor  == utils_parseDataDtor(sh[Len(sh)])
              dims  == [i \in 1..(Len(sh) - 1) |-> getDim(sh[i])]
              argus == join(dims, ", ")
          IN IF dtor.channels = 1
             THEN ShapeExpr(port.regIdx, "MakeShape", dims,
                            "c->MakeShape({ " \o argus \o " })")
             ELSE ShapeExpr(port.regIdx, "MakeShape", dims \o <<IntStr(dtor.channels)>>,
                            "c->MakeShape({ " \o argus \o ", " \o IntStr(dtor.channels) \o " })")
     ELSE Throw("Invalid rank number of the shape: ", <<IntStr(tfRank.value)>>)

(***************************************************************************)
(* The generator applied to one port: its shape array is classified, and   *)
(* the fragments of the port are rendered for a name and a registration    *)
(* index.                                                                  *)
(***************************************************************************)
\* The ports rendered: a name and the registration index of the port.
Ports   == { [name |-> "a", regIdx |-> 0], [name |-> "name1", regIdx |-> 1] }
RegIdxs == 0..1

\* Dimension tokens of the ports: both kinds, each with an unknown and a
\* literal size, one literal given as a number.
GenDimToks ==
  { StrTok(Str_none), NumTok(<<"1", "0">>),
    StrTok(Str_vector \o <<":">> \o Str_none),
    StrTok(Str_vector \o <<":", "3">>) }

\* Data tokens of the ports: one and several channels, a primary type, and a
\* depth outside the grammar.
GenDataToks ==
  { StrTok(Str_CV \o <<"_", "8", "U">>),
    StrTok(Str_CV \o <<"_", "3", "2", "F", "C", "3">>),
    StrTok(Str_int),
    StrTok(Str_CV \o <<"_", "8", "F">>) }

GenShapes ==
  { d \o <<t>> : d \in UNION { [1..n -> GenDimToks] : n \in 0..MaxDims },
                 t \in GenDataToks } \cup { <<>> }

InitGen ==
  /\ shape \in GenShapes
  /\ op = "none"
  /\ result = NotCalled

GeneratorParseShape ==
  /\ op' = "generator.parseShape"
  /\ result' = generator_parseShape(shape)
  /\ UNCHANGED shape

\* The parsed shape _render has stored for the port (inputs.pShape = shape),
\* once parseShape has been applied.
pShapeStored ==
  CASE op = "generator.parseShape" -> result
    [] op = "registerOpShapeFn"    -> result.pShape
    [] OTHER                       -> result.port.pShape

RegisterOpShapeFn ==
  \E regIdx \in RegIdxs :
    LET port == [regIdx |-> regIdx, shape |-> shape]
    IN /\ op # "none"
       /\ pShapeStored.ok
       /\ op' = "registerOpShapeFn"
       /\ result' = [port |-> port, pShape |-> pShapeStored] @@ registerOpShapeFn(port)
       /\ UNCHANGED shape

ComputeInputFn ==
  \E p \in Ports :
    LET port == [name |-> p.name, regIdx |-> p.regIdx, pShape |-> pShapeStored]
    IN /\ op # "none"
       /\ pShapeStored.ok
       /\ op' = "computeInputFn"
       /\ result' = [port |-> port] @@ computeInputFn(port)
       /\ UNCHANGED shape

ComputeOutputFn ==
  \E p \in Ports :
    LET port == [name |-> p.name, regIdx |-> p.regIdx, pShape |-> pShapeStored]
    IN /\ op # "none"
       /\ pShapeStored.ok
       /\ op' = "computeOutputFn"
       /\ result' = [port |-> port] @@ computeOutputFn(port)
       /\ UNCHANGED shape

NextGen ==
  \/ GeneratorParseShape
  \/ RegisterOpShapeFn
  \/ ComputeInputFn
  \/ ComputeOutputFn

SpecGen == InitGen /\ [][NextGen]_vars

(***************************************************************************)
(* lib/types.js applied to one type name.                                  *)
(***************************************************************************)
\* Type names given to the four tables: every depth of 8, 16, 32, 64 bits and
\* of one bit, the primary types, and names outside both tables.
TypeTexts ==
  { b \o <<u>> : b \in DepthBits \cup {<<"1">>}, u \in DepthSigns }
  \cup { Str_char, Str_int, Str_float, Str_double }
  \cup { <<>>, <<"8", "u">>, <<"8", "U", "C", "1">>, Str_CV \o <<"_", "8", "U">>,
         <<"I", "n", "t">>, <<"l", "o", "n", "g">>, <<"b", "o", "o", "l">>,
         <<"u", "i", "n", "t", "8">>, <<"i", "n", "t", "8">>, <<"f", "l", "o", "a", "t", "3", "2">> }

InitTypes ==
  /\ shape \in { <<StrTok(t)>> : t \in TypeTexts }
  /\ op = "none"
  /\ result = NotCalled

CvToStd ==
  /\ Len(shape) = 1
  /\ op' = "cvToStd"
  /\ result' = cvToStd(Join(shape[1].s))
  /\ UNCHANGED shape

CvToTf ==
  /\ Len(shape) = 1
  /\ op' = "cvToTf"
  /\ result' = cvToTf(Join(shape[1].s))
  /\ UNCHANGED shape

StdToCv ==
  /\ Len(shape) = 1
  /\ op' = "stdToCv"
  /\ result' = stdToCv(Join(shape[1].s))
  /\ UNCHANGED shape

StdToTf ==
  /\ Len(shape) = 1
  /\ op' = "stdToTf"
  /\ result' = stdToTf(Join(shape[1].s))
  /\ UNCHANGED shape

NextTypes == CvToStd \/ CvToTf \/ StdToCv \/ StdToTf

SpecTypes == InitTypes /\ [][NextTypes]_vars

(***************************************************************************)
(* lib/generator.js: the lists of ports and attributes of one operator.    *)
(* A list the metadata may lack is <<>> when absent and <<list>> when      *)
(* present.                                                                *)
(***************************************************************************)
\* Most ports and attributes of one operator.
MaxPorts == 3

\* A comparison that orders by descending id.
ascendingId_descending(a, b) == b.id - a.id

\* The comparison given to Array.prototype.sort.
ascendingId(a, b) == a.id - b.id

\* One step of arr.sort(ascendingId): x goes before the first element it
\* compares smaller than, so elements that compare equal keep their order.
RECURSIVE sortInsert(_, _)
sortInsert(sorted, x) ==
  IF sorted = <<>> THEN <<x>>
  ELSE IF ascendingId(x, Head(sorted)) < 0 THEN <<x>> \o sorted
  ELSE <<Head(sorted)>> \o sortInsert(Tail(sorted), x)

\* arr.sort(ascendingId)
RECURSIVE sortAscendingId(_)
sortAscendingId(arr) ==
  IF arr = <<>> THEN <<>>
  ELSE sortInsert(sortAscendingId(SubSeq(arr, 1, Len(arr) - 1)), arr[Len(arr)])

\* result.concat(list) for a list that may be absent.
concatList(list) == IF list # <<>> THEN list[1] ELSE <<>>

\* The type of the registration of one port, lines 205-211 and 229-235.
registerOpType(obj) ==
  IF obj.typeFormat = "cv" THEN cvToTf(obj.type)
  ELSE IF obj.typeFormat = "std" THEN stdToTf(obj.type)
  ELSE [ok |-> TRUE, value |-> Undefined]

\* result.map(obj => ({ name: obj.name, type })): the first conversion that
\* throws ends the map.
registerOpMap(sorted) ==
  LET types  == [i \in 1..Len(sorted) |-> registerOpType(sorted[i])]
      failed == { i \in 1..Len(sorted) : ~types[i].ok }
  IN IF failed # {}
     THEN types[CHOOSE i \in failed : \A j \in failed : i <= j]
     ELSE [ok |-> TRUE,
           value |-> [i \in 1..Len(sorted) |->
                        [name |-> sorted[i].name, type |-> types[i].value]]]

registerOpInput(opsMeta) ==
  LET inputoutputs == concatList(opsMeta.inputoutputs)
      ports  == concatList(opsMeta.inputs)
                \o [i \in 1..Len(inputoutputs) |->
                      [name |-> inputoutputs[i].name \o "_in"] @@ inputoutputs[i]]
  IN registerOpMap(sortAscendingId(ports))

registerOpOutput(opsMeta) ==
  registerOpMap(sortAscendingId(concatList(opsMeta.outputs)
                                \o concatList(opsMeta.inputoutputs)))

registerOpShape(opsMeta) ==
  LET ports  == sortAscendingId(concatList(opsMeta.outputs)
                                \o concatList(opsMeta.inputoutputs))
  IN [ok |-> TRUE,
      value |-> [i \in 1..Len(ports) |->
                   [regIdx |-> i - 1, shape |-> ports[i].shape]]]

computeInput(opsMeta) ==
  LET ports  == sortAscendingId(concatList(opsMeta.inputs)
                                \o concatList(opsMeta.inputoutputs))
  IN [ok |-> TRUE,
      value |-> [i \in 1..Len(ports) |->
                   [regIdx |-> i - 1, name |-> ports[i].name,
                    shape |-> ports[i].shape, pShape |-> ports[i].pShape]]]

computeOutput(opsMeta) ==
  LET ports  == sortAscendingId(concatList(opsMeta.outputs)
                                \o concatList(opsMeta.inputoutputs))
  IN [ok |-> TRUE,
      value |-> [i \in 1..Len(ports) |->
                   [regIdx |-> i - 1, name |-> ports[i].name,
                    shape |-> ports[i].shape, pShape |-> ports[i].pShape]]]

\* list.map(obj => ({ id: obj.id, name: obj.name })) of a list that may be
\* absent.
computeExecute_map(list) ==
  IF list # <<>>
  THEN <<[i \in 1..Len(list[1]) |-> [id |-> list[1][i].id, name |-> list[1][i].name]]>>
  ELSE <<>>

computeExecute(opsMeta) ==
  [fnName       |-> opsMeta.fnName,
   inputs       |-> computeExecute_map(opsMeta.inputs),
   outputs      |-> computeExecute_map(opsMeta.outputs),
   inputoutputs |-> computeExecute_map(opsMeta.inputoutputs),
   attributes   |-> computeExecute_map(opsMeta.attributes)]

\* A map that leaves the names as they are.
addPostfixToName_noPostfix(arr, postfix) ==
  [i \in 1..Len(arr) |-> [arr[i] EXCEPT !.name = @]]

\* item.name = `${item.name}${postfix}` on every item of the list; the items
\* are those of the list, so the list holds the new names afterwards.
addPostfixToName(arr, postfix) ==
  [i \in 1..Len(arr) |-> [arr[i] EXCEPT !.name = @ \o postfix]]

\* The names of the items of a list.
itemNames(arr) == [i \in 1..Len(arr) |-> arr[i].name]

\* computeExecuteFn bound to the object computeExecute returned: the
\* declaration of the outputs and the call, and the object after the names
\* were written.
computeExecuteFn(this) ==
  LET inputs       == IF this.inputs # <<>>
                      THEN addPostfixToName(this.inputs[1], "_cv") ELSE <<>>
      outputs      == IF this.outputs # <<>>
                      THEN addPostfixToName(this.outputs[1], "_cv") ELSE <<>>
      inputoutputs == IF this.inputoutputs # <<>>
                      THEN addPostfixToName(this.inputoutputs[1], "_cv") ELSE <<>>
      attributes   == IF this.attributes # <<>>
                      THEN addPostfixToName(this.attributes[1], "_") ELSE <<>>
      declareOutputStr ==
        IF this.outputs # <<>> /\ Len(this.outputs[1]) > 0
        THEN "Mat " \o join(itemNames(outputs), ", ") \o ";"
        ELSE ""
      argus == sortAscendingId(inputs \o outputs \o inputoutputs \o attributes)
  IN [ok |-> TRUE,
      lines |-> <<[kind |-> "declareOutput",
                   names |-> IF this.outputs # <<>> /\ Len(this.outputs[1]) > 0
                             THEN itemNames(outputs) ELSE <<>>,
                   text |-> declareOutputStr],
                  [kind |-> "call", fnName |-> this.fnName,
                   names |-> itemNames(argus),
                   text |-> "  " \o this.fnName \o "("
                            \o join(itemNames(argus), ", ") \o ");"]>>,
      this |-> [fnName       |-> this.fnName,
                inputs       |-> IF this.inputs # <<>> THEN <<inputs>> ELSE <<>>,
                outputs      |-> IF this.outputs # <<>> THEN <<outputs>> ELSE <<>>,
                inputoutputs |-> IF this.inputoutputs # <<>> THEN <<inputoutputs>> ELSE <<>>,
                attributes   |-> IF this.attributes # <<>> THEN <<attributes>> ELSE <<>>]]

(***************************************************************************)
(* The list functions applied to the parsed metadata of one operator: the  *)
(* ports and attributes have the ids 0..MaxPorts-1, each in any of the     *)
(* four lists or in none, and every list in any order.                     *)
(***************************************************************************)
PortIds == 0..(MaxPorts - 1)

PortGroups == {"inputs", "outputs", "inputoutputs", "attributes"}

\* The shape of the port with an id.
PortShapeOf(id) ==
  CASE id % 3 = 0 -> <<StrTok(Str_vector \o <<":">> \o Str_none), StrTok(Str_int)>>
    [] id % 3 = 1 -> <<StrTok(Str_none), StrTok(Str_none),
                       StrTok(Str_CV \o <<"_", "3", "2", "F", "C", "3">>)>>
    [] OTHER      -> <<StrTok(Str_CV \o <<"_", "8", "U">>)>>

\* A port as _render hands it to the list functions, lines 894-902: the
\* fields of the metadata, the key as name and the classification.
ParsedPort(id) ==
  LET pShape == generator_parseShape(PortShapeOf(id))
  IN [id |-> id, name |-> "name" \o IntStr(id), shape |-> PortShapeOf(id),
      typeFormat |-> pShape.dataDtor.format, type |-> pShape.dataDtor.type,
      pShape |-> pShape]

\* An attribute as _render hands it on, lines 927-935.
ParsedAttribute(id) ==
  [id |-> id, name |-> "name" \o IntStr(id), type |-> "int", defaultVal |-> "30"]

ParsedItem(group, id) == IF group = "attributes" THEN ParsedAttribute(id) ELSE ParsedPort(id)

\* The lists of the ids of a set in every order; the empty list is either
\* absent or present.
IdListsOf(ids) ==
  IF ids = {} THEN { <<>>, << <<>> >> }
  ELSE { <<order>> :
           order \in { o \in [1..Cardinality(ids) -> ids] :
                         \A i, j \in 1..Cardinality(ids) : i # j => o[i] # o[j] } }

\* Every way to put each id into one of the four lists or into none.
Placements(ids) ==
  UNION { { [inputs |-> i, outputs |-> o, inputoutputs |-> io, attributes |-> a] :
              i  \in IdListsOf({ id \in ids : place[id] = "inputs" }),
              o  \in IdListsOf({ id \in ids : place[id] = "outputs" }),
              io \in IdListsOf({ id \in ids : place[id] = "inputoutputs" }),
              a  \in IdListsOf({ id \in ids : place[id] = "attributes" }) } :
          place \in [ids -> PortGroups \cup {"none"}] }

\* The list of a group with the items of its ids.
ParsedList(group, idList) ==
  IF idList = <<>> THEN <<>>
  ELSE << [k \in 1..Len(idList[1]) |-> ParsedItem(group, idList[1][k])] >>

\* The metadata of the operators whose ports and attributes have the given
\* ids.
ParsedOpsMetas(ids) ==
  { [fnName |-> "my_fn", inputs |-> lists["inputs"], outputs |-> lists["outputs"],
     inputoutputs |-> lists["inputoutputs"], attributes |-> lists["attributes"]] :
      lists \in { [group \in PortGroups |-> ParsedList(group, placement[group])] :
                    placement \in Placements(ids) } }

InitPorts ==
  /\ shape \in ParsedOpsMetas(PortIds)
  /\ op = "none"
  /\ result = NotCalled

RegisterOpInput ==
  /\ op' = "registerOpInput"
  /\ result' = registerOpInput(shape)
  /\ UNCHANGED shape

RegisterOpOutput ==
  /\ op' = "registerOpOutput"
  /\ result' = registerOpOutput(shape)
  /\ UNCHANGED shape

RegisterOpShape ==
  /\ op' = "registerOpShape"
  /\ result' = registerOpShape(shape)
  /\ UNCHANGED shape

ComputeInput ==
  /\ op' = "computeInput"
  /\ result' = computeInput(shape)
  /\ UNCHANGED shape

ComputeOutput ==
  /\ op' = "computeOutput"
  /\ result' = computeOutput(shape)
  /\ UNCHANGED shape

\* computeExecuteFn on the object computeExecute makes of the metadata.
ComputeExecuteFn ==
  /\ op' = "computeExecuteFn"
  /\ result' = computeExecuteFn(computeExecute(shape))
  /\ UNCHANGED shape

NextPorts ==
  \/ RegisterOpInput \/ RegisterOpOutput \/ RegisterOpShape
  \/ ComputeInput \/ ComputeOutput \/ ComputeExecuteFn

SpecPorts == InitPorts /\ [][NextPorts]_vars

(***************************************************************************)
(* lib/generator.js: _render.  The metadata of an operator holds its name, *)
(* the name of its function and its device ("" when none is given), and up *)
(* to four objects, inputs, outputs,                                       *)
(* inputoutputs and attributes, each absent (<<>>) or present (the list of *)
(* its keys with their values, in the order of Object.keys).  The objects  *)
(* are shared with the caller: what _render writes into them is seen by    *)
(* the caller and by the next call.                                        *)
(***************************************************************************)
MaxCalls == 2

\* The order in which _render goes through the objects of the metadata.
renderOrder == <<"inputs", "outputs", "inputoutputs", "attributes">>

\* Object.keys(obj) of an object that may be absent, with the values.
objectKeys(obj) == IF obj # <<>> THEN obj[1] ELSE <<>>

\* The first result that is a thrown error: its index, 0 when there is none.
firstFailed(results) ==
  LET failed == { i \in 1..Len(results) : ~results[i].ok }
  IN IF failed = {} THEN 0 ELSE CHOOSE i \in failed : \A j \in failed : i <= j

\* The port after name, typeFormat, type and pShape have been written into
\* it.
writePort(key, port, pShape) ==
  [name |-> Join(trim(key)), typeFormat |-> pShape.dataDtor.format,
   type |-> pShape.dataDtor.type, pShape |-> pShape] @@ port

\* The attribute with its name written, its type overwritten by the type
\* name alone and its default value written.
writeAttribute(key, attribute, typeExpr) ==
  [name |-> Join(trim(key)),
   type |-> StrTok(CHOOSE t \in AttrTypeNames : Join(t) = typeExpr.type),
   defaultVal |-> typeExpr.defaultVal] @@ attribute

\* The four maps of _render over the keys of the objects, given what
\* parseShape and parseAttrType produce for each value ("parsed", by object
\* and position).  A thrown error ends _render: the values before it have
\* been written, the others have not.
writeOpsMeta(opsMeta, parsed) ==
  LET failed(g)  == firstFailed(parsed[g])
      reached(g) == \A h \in 1..(g - 1) : failed(h) = 0
      written(g, i) == reached(g) /\ (failed(g) = 0 \/ i < failed(g))
      value(g, i) ==
        LET e == objectKeys(opsMeta[renderOrder[g]])[i]
        IN IF ~written(g, i) THEN e.value
           ELSE IF renderOrder[g] = "attributes"
           THEN writeAttribute(e.key, e.value, parsed[g][i])
           ELSE writePort(e.key, e.value, parsed[g][i])
      entries(g) ==
        IF opsMeta[renderOrder[g]] = <<>> THEN <<>>
        ELSE << [i \in 1..Len(parsed[g]) |->
                   [key |-> opsMeta[renderOrder[g]][1][i].key, value |-> value(g, i)]] >>
      values(g) ==
        IF opsMeta[renderOrder[g]] = <<>> THEN <<>>
        ELSE << [i \in 1..Len(parsed[g]) |-> value(g, i)] >>
      thrown == { g \in 1..4 : failed(g) # 0 }
      first  == CHOOSE g \in thrown : \A h \in thrown : g <= h
  IN [thrown  |-> IF thrown = {} THEN <<>> ELSE <<parsed[first][failed(first)]>>,
      opsMeta |-> [opName |-> opsMeta.opName, fnName |-> opsMeta.fnName,
                   device |-> opsMeta.device,
                   inputs |-> entries(1), outputs |-> entries(2),
                   inputoutputs |-> entries(3), attributes |-> entries(4)],
      parsedOpsMeta |-> [opName |-> opsMeta.opName, fnName |-> opsMeta.fnName,
                         inputs |-> values(1), outputs |-> values(2),
                         inputoutputs |-> values(3), attributes |-> values(4)]]

\* The part of _render that classifies the ports and the attributes.
parseOpsMeta(opsMeta) ==
  writeOpsMeta(opsMeta,
    [g \in 1..4 |->
       [i \in 1..Len(objectKeys(opsMeta[renderOrder[g]])) |->
          IF renderOrder[g] = "attributes"
          THEN parseAttrType(objectKeys(opsMeta[renderOrder[g]])[i].value.type)
          ELSE generator_parseShape(objectKeys(opsMeta[renderOrder[g]])[i].value.shape)]])

\* The type of a parsed attribute is held as the token of its text; the
\* registration carries the text.
opAttributes(opsMeta) ==
  LET sorted == sortAscendingId(concatList(opsMeta.attributes))
  IN [ok |-> TRUE,
      value |-> [i \in 1..Len(sorted) |->
                   [name |-> sorted[i].name, type |-> Join(sorted[i].type.s),
                    defaultVal |-> sorted[i].defaultVal]]]

\* The functions of the change-case library on the names given here.
changeCase(fn, str) ==
  CASE fn = "camelCase"      /\ str = "my_op"  -> "myOp"
    [] fn = "camelCase"      /\ str = "addOne" -> "addOne"
    [] fn = "upperCaseFirst" /\ str = "myOp"   -> "MyOp"
    [] fn = "upperCaseFirst" /\ str = "addOne" -> "AddOne"
    [] fn = "snakeCase"      /\ str = "my_op"  -> "my_op"
    [] fn = "snakeCase"      /\ str = "addOne" -> "add_one"
    [] fn \in {"snakeCase", "lowerCase"} /\ str \in {"a", "b", "n", "a_in"} -> str

lowerAndSnake(str) == changeCase("lowerCase", changeCase("snakeCase", str))

\* The functions of the view that render one registration; `this` is the
\* item of the list the template is at.
registerOpInputFn(this) ==
  [ok |-> TRUE,
   text |-> ".Input(\"" \o lowerAndSnake(this.name) \o ": " \o this.type \o "\")"]

registerOpOutputFn(this) ==
  [ok |-> TRUE,
   text |-> ".Output(\"" \o lowerAndSnake(this.name) \o ": " \o this.type \o "\")"]

registerOpAttrFn(this) ==
  LET type == IF this.defaultVal # "" THEN this.type \o " = " \o this.defaultVal
              ELSE this.type
  IN [ok |-> TRUE,
      text |-> ".Attr(\"" \o lowerAndSnake(this.name) \o ": " \o type \o "\")"]

getAttributesFn(this) ==
  [ok |-> TRUE,
   text |-> "OP_REQUIRES_OK(context, context->GetAttr(\"" \o lowerAndSnake(this.name)
            \o "\", &" \o this.name \o "_));"]

declareAttributesFn(this) ==
  [ok |-> TRUE, text |-> this.type \o "      " \o this.name \o "_;"]

\* Mustache.render of the tags of a template: a function of the view that
\* throws ends the rendering with its error, otherwise the text holds what
\* the tags rendered, in order.
template_text(view, fragments) ==
  IF firstFailed(fragments) # 0 THEN fragments[firstFailed(fragments)]
  ELSE [ok |-> TRUE, fragments |-> fragments]

\* lib/template.js rendered for a view: the tags of the template in the
\* order of the file.  {{name}} renders the value of the view, nothing when
\* the view has none (srcFile); a section {{#list}} {{{fn}}} {{/list}}
\* renders the function of the view once for every item of the list, bound
\* to the item, and once for computeExecute, which is an object.  The text
\* between the tags is copied as it is and is left out here; the names
\* rendered by {{name}} hold no character that Mustache would escape.
template_render(view) ==
  LET name(n)  == <<[ok |-> TRUE, text |-> IF n \in DOMAIN view THEN view[n] ELSE ""]>>
  IN template_text(view,
       name("srcFile")
       \o name("opName")
       \o [i \in 1..Len(view.registerOpInput) |-> registerOpInputFn(view.registerOpInput[i])]
       \o [i \in 1..Len(view.opAttributes) |-> registerOpAttrFn(view.opAttributes[i])]
       \o [i \in 1..Len(view.registerOpOutput) |-> registerOpOutputFn(view.registerOpOutput[i])]
       \o [i \in 1..Len(view.registerOpShape) |-> registerOpShapeFn(view.registerOpShape[i])]
       \o name("opName") \o name("opName")
       \o [i \in 1..Len(view.opAttributes) |-> getAttributesFn(view.opAttributes[i])]
       \o [i \in 1..Len(view.computeInput) |-> computeInputFn(view.computeInput[i])]
       \o <<computeExecuteFn(view.computeExecute)>>
       \o [i \in 1..Len(view.computeOutput) |-> computeOutputFn(view.computeOutput[i])]
       \o [i \in 1..Len(view.opAttributes) |-> declareAttributesFn(view.opAttributes[i])]
       \o name("opName") \o name("device") \o name("opName"))

\* The view made of the lists, lines 936-956, and its rendering.  A list
\* function that throws ends _render before the template is rendered.
renderView(opsMeta, lists) ==
  IF firstFailed(lists) # 0 THEN lists[firstFailed(lists)]
  ELSE template_render([opName |-> opsMeta.opName,
                        fnName |-> opsMeta.fnName,
                        device |-> IF opsMeta.device # "" THEN opsMeta.device
                                   ELSE "DEVICE_CPU",
                        registerOpInput  |-> lists[1].value,
                        registerOpOutput |-> lists[2].value,
                        opAttributes     |-> lists[3].value,
                        registerOpShape  |-> lists[4].value,
                        computeInput     |-> lists[5].value,
                        computeExecute   |-> lists[6].value,
                        computeOutput    |-> lists[7].value])

\* The part of _render after the classification: the lists of the view are
\* computed from the parsed metadata and the template is rendered.
renderParsed(w) ==
  [out |-> IF w.thrown # <<>> THEN w.thrown[1]
           ELSE renderView(w.opsMeta,
                  <<registerOpInput(w.parsedOpsMeta), registerOpOutput(w.parsedOpsMeta),
                    opAttributes(w.parsedOpsMeta), registerOpShape(w.parsedOpsMeta),
                    computeInput(w.parsedOpsMeta),
                    [ok |-> TRUE, value |-> computeExecute(w.parsedOpsMeta)],
                    computeOutput(w.parsedOpsMeta)>>),
   opsMeta |-> w.opsMeta]

\* _render(opsMeta): what it returns or throws ("out"), and the metadata as
\* the call leaves it ("opsMeta").
_render(opsMeta) == renderParsed(parseOpsMeta(opsMeta))

(***************************************************************************)
(* _render called on the metadata of one operator, and called again on the *)
(* same object.  The first port "a" is in any of the three lists of ports  *)
(* with one of four shapes; a second port " b\f" may follow among the      *)
(* inputs or the outputs; one attribute and a device may be given.         *)
(***************************************************************************)
RenderShapes ==
  { <<StrTok(Str_vector \o <<":">> \o Str_none), StrTok(Str_int)>>,
    <<StrTok(Str_none), StrTok(Str_none), StrTok(Str_CV \o <<"_", "3", "2", "F", "C", "3">>)>>,
    <<StrTok(Str_CV \o <<"_", "8", "U">>)>>,
    <<StrTok(Str_vector \o <<":", "3">>), StrTok(Str_CV \o <<"_", "8", "F">>)>> }

SecondShapes ==
  { <<StrTok(Str_vector \o <<":">> \o Str_none), StrTok(Str_int)>>,
    <<StrTok(Str_vector \o <<":", "3">>), StrTok(Str_CV \o <<"_", "8", "F">>)>> }

AttributeTypes ==
  { StrTok(Str_int \o <<" ", "=", " ", "3", "0">>), StrTok(Str_int \o <<" ", "=", " ", "x">>) }

\* One object of the metadata with the keys put into it; without a key the
\* object is absent.
ObjectOf(entries) ==
  IF entries = <<>> THEN <<>>
  ELSE << [i \in 1..Len(entries) |-> [key |-> entries[i].key, value |-> entries[i].value]] >>

OpsMetas ==
  { [opName |-> "MyOp", fnName |-> "my_fn", device |-> device,
     inputs       |-> ObjectOf(SelectSeq(first \o second, LAMBDA e : e.group = "inputs")),
     outputs      |-> ObjectOf(SelectSeq(first \o second, LAMBDA e : e.group = "outputs")),
     inputoutputs |-> ObjectOf(SelectSeq(first \o second, LAMBDA e : e.group = "inputoutputs")),
     attributes   |-> ObjectOf(attribute)] :
      device \in { "", "DEVICE_GPU" },
      first  \in { <<[group |-> g, key |-> <<"a">>, value |-> [id |-> 0, shape |-> sh]]>> :
                     g \in {"inputs", "outputs", "inputoutputs"}, sh \in RenderShapes },
      second \in { <<>> } \cup
                 { <<[group |-> g, key |-> <<" ", "b", "\f">>,
                      value |-> [id |-> 1, shape |-> sh]]>> :
                     g \in {"inputs", "outputs"}, sh \in SecondShapes },
      attribute \in { <<>> } \cup
                    { <<[key |-> <<"n">>, value |-> [id |-> 2, type |-> t]]>> :
                       t \in AttributeTypes } }

InitRender ==
  /\ shape \in OpsMetas
  /\ op = "none"
  /\ result = [calls |-> 0]

\* One call of _render on the object: the object is left as the call wrote
\* it; the outcome of the first call is kept beside that of the last.
InternalRender ==
  /\ result.calls < MaxCalls
  /\ \E r \in { _render(shape) } :
        /\ shape' = r.opsMeta
        /\ result' = [calls  |-> result.calls + 1, before |-> shape,
                      first  |-> IF result.calls = 0 THEN r.out ELSE result.first,
                      last   |-> r.out]
  /\ op' = "_render"

NextRender == InternalRender

SpecRender == InitRender /\ [][NextRender]_vars

(***************************************************************************)
(* lib/generator.js: render(url, callback).  The file at url is missing,   *)
(* holds a text that is no JSON, or holds the metadata of an operator;     *)
(* fs.writeFile completes later, with or without an error, and calls the   *)
(* callback then.                                                          *)
(***************************************************************************)
\* The end of the try block given what _render returned or threw: an error
\* is caught and handed to the callback, a text is handed to fs.writeFile
\* with the callback.
writeOrCatch(parsed, output) ==
  IF ~output.ok
  THEN [callbacks |-> <<output>>, pending |-> <<>>, writes |-> 0, files |-> <<>>]
  ELSE [callbacks |-> <<>>,
        pending |-> <<[path |-> parsed.dir \o "/" \o parsed.name \o "_op.cc",
                       data |-> output]>>,
        writes |-> 1, files |-> <<>>]

\* The synchronous part of render: the calls of the callback made, the
\* write handed to fs.writeFile and not yet completed, the number of calls
\* of fs.writeFile and the files written.
render(file) ==
  IF file.content.kind = "missing"
  THEN writeOrCatch(file, Throw("ENOENT: no such file or directory, open ", <<file.name>>))
  ELSE IF file.content.kind = "text"
  THEN writeOrCatch(file, Throw("SyntaxError: Unexpected token", <<>>))
  ELSE writeOrCatch(file,
         _render([file.content.opsMeta EXCEPT
                    !.opName = IF @ # ""
                               THEN changeCase("upperCaseFirst", changeCase("camelCase", @))
                               ELSE changeCase("upperCaseFirst",
                                               changeCase("camelCase", file.name)),
                    !.fnName = IF @ # "" THEN changeCase("snakeCase", @)
                               ELSE changeCase("snakeCase", file.name)]).out)

\* The names an operator is given in its file: none, or both.
FileNames == { [opName |-> "", fnName |-> ""], [opName |-> "addOne", fnName |-> "addOne"] }

Files ==
  { [dir |-> "ops", name |-> "my_op", content |-> c] :
      c \in { [kind |-> "missing"], [kind |-> "text"] } \cup
            { [kind |-> "json",
               opsMeta |-> [m EXCEPT !.opName = n.opName, !.fnName = n.fnName]] :
                m \in OpsMetas, n \in FileNames } }

\* The outcomes of fs.writeFile: no error, or an error of the file system.
WriteOutcomes == { [ok |-> TRUE], Throw("EACCES: permission denied, open ", <<>>) }

InitFile ==
  /\ shape \in Files
  /\ op = "none"
  /\ result = [callbacks |-> <<>>, pending |-> <<>>, writes |-> 0, files |-> <<>>]

\* render(url, callback) up to its return.
Render ==
  /\ op = "none"
  /\ op' = "render"
  /\ result' = render(shape)
  /\ UNCHANGED shape

\* fs.writeFile completes: the file is written unless the write failed, and
\* the callback is called with the outcome.
WriteFileComplete ==
  /\ op = "render"
  /\ result.pending # <<>>
  /\ \E err \in WriteOutcomes :
       result' = [callbacks |-> Append(result.callbacks, err),
                  pending   |-> <<>>,
                  writes    |-> result.writes,
                  files     |-> IF err.ok THEN result.files \o result.pending
                                ELSE result.files]
  /\ op' = "writeFile"
  /\ UNCHANGED shape

NextFile == Render \/ WriteFileComplete

SpecFile == InitFile /\ [][NextFile]_vars

(***************************************************************************)
(* Properties of parseShape.  They are stated on the shape array given     *)
(* (its tokens) and the value or error parseShape produced for it.         *)
(***************************************************************************)
\* The dimension tokens and the data token of a shape array.
DimToksOf(sh) == SubSeq(sh, 1, Len(sh) - 1)
DataTokOf(sh) == sh[Len(sh)]

\* A dimension token written with the vector: prefix.
IsVectorTok(tok) == startsWith(tok.s, Str_vector \o <<":">>)

\* Each token of the shape array is accepted by its parser.
TokensParse(sh) ==
  /\ Len(sh) >= 1
  /\ parseDataDtor(DataTokOf(sh)).ok
  /\ \A i \in 1..(Len(sh) - 1) : parseDimDtor(sh[i]).ok

\* parseShape returned a parsed shape for the shape array.
Classified == op = "parseShape" /\ result.ok

\* parseShape threw the error with this message.
Raised(msg) == op = "parseShape" /\ ~result.ok /\ result.msg = msg

\* The positions of the vector tokens among the dimension tokens.
VectorPositions(sh) == {i \in 1..(Len(sh) - 1) : IsVectorTok(sh[i])}

Max(S) == CHOOSE x \in S : \A y \in S : y <= x

\* C1: in every parsed shape cvRank is the number of tokens minus 1, tfRank is
\* cvRank + 1 when the data descriptor is a CV type with more than one channel
\* and cvRank otherwise; so tfRank >= cvRank, with equality exactly when
\* channels = 1 or the data descriptor is a primary type.
C1_Ranks ==
  /\ Classified =>
       LET d == result.dataDtor IN
       /\ result.cvRank = Len(shape) - 1
       /\ result.tfRank = IF d.format = "cv" /\ d.channels > 1
                          THEN result.cvRank + 1 ELSE result.cvRank
       /\ result.tfRank >= result.cvRank
       /\ (result.tfRank = result.cvRank) <=> (d.channels = 1 \/ d.format = "std")
  \* getCvRank and getTfRank called on a shape array parseShape accepts.
  /\ (op = "getCvRank" /\ parseShape(shape).ok) =>
       (result.ok /\ result.value = Len(shape) - 1)
  /\ (op = "getTfRank" /\ parseShape(shape).ok) =>
       LET d == parseDataDtor(DataTokOf(shape)) IN
       /\ result.ok
       /\ result.value = IF d.format = "cv" /\ d.channels > 1
                         THEN Len(shape) ELSE Len(shape) - 1

\* A multichannel Mat was parsed: its tfRank is one more than its cvRank.
C1_Witness ==
  /\ Classified
  /\ result.dataDtor.channels > 1
  /\ result.cvRank = 2
  /\ result.tfRank = 3

\* C2: in every parsed shape vecDims is the position of the last vector token
\* (0 when there is none), vecDims + matDims = cvRank, and matDimDtorArr is the
\* last matDims descriptors of dimDtorArr, in order.
C2_VecMatDims ==
  Classified =>
    LET vp == VectorPositions(shape)
        n  == Len(result.dimDtorArr)
    IN /\ result.vecDims = IF vp = {} THEN 0 ELSE Max(vp)
       /\ result.vecDims + result.matDims = result.cvRank
       /\ Len(result.matDimDtorArr) = result.matDims
       /\ \A i \in 1..result.matDims :
            result.matDimDtorArr[i] = result.dimDtorArr[n - result.matDims + i]

\* A vector of Mat with two vector dimensions and one Mat dimension was parsed.
C2_Witness ==
  /\ Classified
  /\ result.vecDims = 2
  /\ result.matDims = 1
  /\ Len(result.matDimDtorArr) = 1

\* C3: for every shape array whose tokens each parse and in which a Mat
\* dimension token stands somewhere before a vector dimension token,
\* parseShape throws the 'Mat of vector' error; and in every parsed shape the
\* vector descriptors are exactly the first vecDims descriptors.
C3_VectorPrefix ==
  /\ ( /\ op = "parseShape"
       /\ TokensParse(shape)
       /\ \E i, j \in 1..(Len(shape) - 1) :
             i < j /\ ~IsVectorTok(shape[i]) /\ IsVectorTok(shape[j]) )
     => Raised("Invalid shape format: Mat of vector or vector of Mat of vector is not allowed")
  /\ Classified =>
       \A i \in 1..Len(result.dimDtorArr) :
         (result.dimDtorArr[i].type = "vector") <=> (i <= result.vecDims)

\* A Mat token two places before the last vector token was rejected.
C3_Witness ==
  /\ Raised("Invalid shape format: Mat of vector or vector of Mat of vector is not allowed")
  /\ Len(shape) = 4
  /\ ~IsVectorTok(shape[1])
  /\ IsVectorTok(shape[2])
  /\ IsVectorTok(shape[3])

\* C4: a parsed shape has exactly one of the four types, decided by vecDims,
\* cvRank and the format of the data descriptor: SCALAR iff there is no
\* dimension token and the data is a primary type; MAT iff there is no vector
\* dimension, cvRank > 0 and the data is a CV type; VEC_OF_PRIM iff
\* vecDims = cvRank > 0 and the data is a primary type; VEC_OF_MAT iff
\* 0 < vecDims < cvRank and the data is a CV type.
C4_Classification ==
  Classified =>
    LET v   == result.vecDims
        b   == result.cvRank
        std == result.dataDtor.format = "std"
        cv  == result.dataDtor.format = "cv"
    IN /\ result.type \in {SCALAR, VEC_OF_PRIM, VEC_OF_MAT, MAT}
       /\ std # cv
       /\ (result.type = SCALAR) <=> (Len(shape) = 1 /\ std)
       /\ (result.type = MAT) <=> (v = 0 /\ b > 0 /\ cv)
       /\ (result.type = VEC_OF_PRIM) <=> (v = b /\ b > 0 /\ std)
       /\ (result.type = VEC_OF_MAT) <=> (0 < v /\ v < b /\ cv)

\* A vector of primary type was classified.
C4_Witness ==
  /\ Classified
  /\ result.type = VEC_OF_PRIM
  /\ result.vecDims = 2
  /\ result.dataDtor.format = "std"

\* The errors of parseShape about the structure of the shape.
StructuralErrors ==
  { "Invalid shape format: Mat of vector or vector of Mat of vector is not allowed",
    "Invalid shape format: vector of OpenCV type is not allowed",
    "Invalid shape format: Mat of primary type is not allowed",
    "Invalid shape format: scalar of OpenCV type is not allowed" }

\* C5: parseShape returns no parsed shape and throws a structural error for
\* every shape array, of tokens that each parse, that is (a) a CV data token
\* alone, with one channel or more, (b) Mat dimensions only and a primary data
\* type, (c) vector dimensions only and a CV data type, or (d) vector and Mat
\* dimensions and a primary data type.
C5_Disallowed ==
  (op = "parseShape" /\ TokensParse(shape)) =>
    LET d  == parseDataDtor(DataTokOf(shape))
        n  == Len(shape) - 1
        nv == Cardinality(VectorPositions(shape))
        a  == n = 0 /\ d.format = "cv"
        b  == nv = 0 /\ n > 0 /\ d.format = "std"
        c  == n > 0 /\ nv = n /\ d.format = "cv"
        e  == 0 < nv /\ nv < n /\ d.format = "std"
    IN (a \/ b \/ c \/ e) => (~result.ok /\ result.msg \in StructuralErrors)

\* A single-channel CV data token alone was rejected as a scalar of CV type.
C5_Witness ==
  /\ Raised("Invalid shape format: scalar of OpenCV type is not allowed")
  /\ Len(shape) = 1
  /\ parseDataDtor(shape[1]).ok
  /\ parseDataDtor(shape[1]).channels = 1

\* C6: for a shape array of tokens that each parse, with a CV data type and
\* the vector dimensions first and at least one Mat dimension after them:
\* with container type Vec or Matx it is rejected when a Mat dimension has
\* size none, and with Vec when there is more than one Mat dimension; it is
\* accepted otherwise, whatever the sizes of the vector dimensions, and always
\* with the default container Mat.
C6_StaticMat ==
  ( /\ op = "parseShape"
    /\ TokensParse(shape)
    /\ parseDataDtor(DataTokOf(shape)).format = "cv"
    /\ LET nv == Cardinality(VectorPositions(shape))
       IN VectorPositions(shape) = 1..nv /\ nv < Len(shape) - 1 )
  => LET d       == parseDataDtor(DataTokOf(shape))
         n       == Len(shape) - 1
         nv      == Cardinality(VectorPositions(shape))
         static  == d.ctype \in {"Vec", "Matx"}
         dynamic == \E i \in (nv + 1)..n : shape[i].s = Str_none
     IN /\ (static /\ dynamic)
            => Raised("Invalid shape format: dynamic dimension size is not allowed for static Mat type")
        /\ (d.ctype = "Vec" /\ n - nv > 1) => ~result.ok
        /\ (static /\ ~dynamic /\ ~(d.ctype = "Vec" /\ n - nv > 1)) => result.ok
        /\ (d.ctype = "Mat") => result.ok

\* A vector of Matx with a vector dimension of size none was accepted.
C6_Witness ==
  /\ Classified
  /\ result.type = VEC_OF_MAT
  /\ result.dataDtor.ctype = "Matx"
  /\ result.dimDtorArr[1].type = "vector"
  /\ result.dimDtorArr[1].dims = NoneDims
  /\ result.matDims = 2

\* The list ", d1, ..., dk" of the sizes written in the tokens.
RECURSIVE ExtentList(_)
ExtentList(toks) ==
  IF toks = <<>> THEN ""
  ELSE ", " \o Join(Head(toks).s) \o ExtentList(Tail(toks))

\* C7: in a parsed Mat or vector of Mat with container type Vec or Matx,
\* varMatDecStr is '<ctype><<scalar type>, d1, ..., dk>' with the sizes of the
\* Mat dimension tokens in order and a leading 1 exactly when the type is Matx
\* and there is one Mat dimension (a Matx declares at least two extents, a Vec
\* exactly one); with the default container it is 'Mat'.
C7_MatDeclaration ==
  (Classified /\ result.type \in {MAT, VEC_OF_MAT}) =>
    LET ctype == result.dataDtor.ctype
        n     == Len(shape) - 1
        nv    == Cardinality(VectorPositions(shape))
        lead  == ctype = "Matx" /\ n - nv = 1
    IN IF ctype \in {"Matx", "Vec"}
       THEN /\ result.varMatDecStr =
                 ctype \o "<" \o cvToStd(result.dataDtor.dtype).value
                       \o (IF lead THEN ", 1" ELSE "")
                       \o ExtentList(SubSeq(shape, nv + 1, n)) \o ">"
            /\ ctype = "Vec" => n - nv = 1
            /\ ctype = "Matx" => (n - nv) + (IF lead THEN 1 ELSE 0) >= 2
       ELSE result.varMatDecStr = "Mat"

\* A one-dimensional Matx was declared as a matrix of one row.
C7_Witness ==
  /\ Classified
  /\ result.type = MAT
  /\ result.varMatDecStr = "Matx<float, 1, 10>"

\* n copies of the text s.
RECURSIVE Rep(_, _)
Rep(s, n) == IF n = 0 THEN "" ELSE s \o Rep(s, n - 1)

\* C8: varDecStr of a parsed shape is its element declaration inside as many
\* vector layers as there are vector dimensions: the primary type name for a
\* vector of primary type, varMatDecStr for a vector of Mat, and no layer for
\* a Mat (varMatDecStr itself) and a scalar (the primary type name).
C8_VectorLayers ==
  Classified =>
    LET nv   == Cardinality(VectorPositions(shape))
        elem == IF result.type \in {MAT, VEC_OF_MAT}
                THEN result.varMatDecStr
                ELSE Join(DataTokOf(shape).s)
    IN /\ result.varDecStr = Rep("vector<", nv) \o elem \o Rep(">", nv)
       /\ result.type \in {MAT, SCALAR} => nv = 0
       /\ result.type \in {VEC_OF_PRIM, VEC_OF_MAT} => nv > 0

\* A vector of vector of Mat was declared.
C8_Witness ==
  /\ Classified
  /\ result.type = VEC_OF_MAT
  /\ result.vecDims = 2
  /\ result.varDecStr = "vector<vector<Mat>>"

(***************************************************************************)
(* Properties of parseDataDtor.  They are stated on the token given, taken *)
(* apart as DataTok(bits, sign, chan, kind), and the descriptor or error   *)
(* parseDataDtor produced for it.                                          *)
(***************************************************************************)
\* The seven depths of OpenCV.
ValidDepths == {"8U", "8S", "16U", "16S", "32S", "32F", "64F"}

\* The channel counts written in the tokens, and the suffix C<n>.
ChanCounts == (0..MaxChan) \cup {12}
ChanSuffix(n) == <<"C">> \o IntToChars(n)

\* parseDataDtor was called on the token tok.
ParsedToken(tok) == op = "parseDataDtor" /\ shape = <<tok>>

\* C9: parseDataDtor returns a CV descriptor only for a token whose depth is
\* one of the seven depths and whose channel count is in 1..4 (1 when no
\* channel suffix is written), and a primary descriptor only for one of char,
\* int, float, double, with channels = 1; a token with another depth or with
\* channel count 0 or above 4 gets an error and no descriptor.
C9_DepthAndChannels ==
  op = "parseDataDtor" =>
    /\ \A b \in DepthBits, u \in DepthSigns, k \in KindSuffixes :
         LET depth == Join(b) \o u IN
         /\ \A n \in ChanCounts :
              ParsedToken(DataTok(b, u, ChanSuffix(n), k)) =>
                /\ result.ok => ( /\ depth \in ValidDepths
                                  /\ n \in 1..4
                                  /\ result.format = "cv"
                                  /\ result.dtype = depth
                                  /\ result.channels = n )
                /\ (depth \notin ValidDepths \/ n = 0 \/ n >= 5) => ~result.ok
                /\ (depth \in ValidDepths /\ n \in 1..4 /\ k = <<>>) => result.ok
         /\ ParsedToken(DataTok(b, u, <<>>, k)) =>
              /\ result.ok => ( /\ depth \in ValidDepths
                                /\ result.format = "cv"
                                /\ result.dtype = depth
                                /\ result.channels = 1 )
              /\ depth \notin ValidDepths => ~result.ok
              /\ (depth \in ValidDepths /\ k = <<>>) => result.ok
    /\ (result.ok /\ result.format = "cv") =>
         (result.dtype \in ValidDepths /\ result.channels \in 1..4)
    /\ (result.ok /\ result.format = "std") =>
         /\ shape[1].s \in {Str_char, Str_int, Str_float, Str_double}
         /\ result.dtype = Join(shape[1].s)
         /\ result.channels = 1

\* CV_8UC5 was rejected for its channel count.
C9_Witness ==
  /\ ParsedToken(DataTok(<<"8">>, "U", ChanSuffix(5), <<>>))
  /\ ~result.ok
  /\ result.msg = "Invalid Data Cell format of channel: expect number between 1, 4 but get "

\* C10: parseDataDtor rejects every token that has more than one channel and
\* the container type Matx or Vec; the ctype of a CV descriptor it returns is
\* Mat unless the token names Matx or Vec after its depth part and has one
\* channel; a primary descriptor has neither Matx nor Vec.
C10_StaticMatChannels ==
  op = "parseDataDtor" =>
    /\ \A b \in DepthBits, u \in DepthSigns, n \in ChanCounts, kind \in {Str_Matx, Str_Vec} :
         (n > 1 /\ ParsedToken(DataTok(b, u, ChanSuffix(n), <<":">> \o kind)))
           => ~result.ok
    /\ (result.ok /\ result.format = "cv" /\ result.ctype # "Mat") =>
         /\ result.channels = 1
         /\ \E b \in DepthBits, u \in DepthSigns, c \in {<<>>, ChanSuffix(1)},
               kind \in {Str_Matx, Str_Vec} :
              /\ result.ctype = Join(kind)
              /\ startsWith(shape[1].s, DataTok(b, u, c, <<":">> \o kind).s)
    /\ (result.ok /\ result.format = "std") => result.ctype \notin {"Matx", "Vec"}

\* CV_32FC2:Vec was rejected as a multichannel static Mat.
C10_Witness ==
  /\ ParsedToken(DataTok(<<"3", "2">>, "F", ChanSuffix(2), <<":">> \o Str_Vec))
  /\ ~result.ok
  /\ result.msg = "Invalid data descriptor format: static Mat type does not support multichannels"

\* The container suffixes of the grammar CV_<depth>[C<n>][:{Mat|Matx|Vec}].
GrammarKinds == {<<>>, <<":">> \o Str_Mat, <<":">> \o Str_Matx, <<":">> \o Str_Vec}

\* C11: parseDataDtor returns a CV descriptor only for a token that is the
\* depth and channel part alone or followed by one ':' and one of Mat, Matx,
\* Vec; a token whose suffix after ':' is empty and a token with a further
\* ':' part after the container type get an error.
C11_ExactGrammar ==
  op = "parseDataDtor" =>
    /\ (result.ok /\ result.format = "cv") =>
         \E b \in DepthBits, u \in DepthSigns, c \in ChanSuffixes, k \in GrammarKinds :
           shape[1] = DataTok(b, u, c, k)
    /\ \A b \in DepthBits, u \in DepthSigns, c \in ChanSuffixes :
         ( \/ ParsedToken(DataTok(b, u, c, <<":">>))
           \/ ParsedToken(DataTok(b, u, c, <<":">> \o Str_Matx \o <<":">> \o Str_Vec)) )
           => ~result.ok

\* The text canon is the canonical string of the descriptor returned, and
\* parsing it gives the same format, depth, channels and canonical string,
\* with the container type Mat for a CV descriptor and none for a primary one.
RoundTrips(canon) ==
  LET again == parseDataDtor(StrTok(canon))
  IN /\ result.toString = Join(canon)
     /\ again.ok
     /\ again.format = result.format
     /\ again.dtype = result.dtype
     /\ again.channels = result.channels
     /\ again.toString = result.toString
     /\ again.ctype = IF result.format = "cv" THEN "Mat" ELSE Undefined

\* C12: for every token parseDataDtor accepts, toString() of the descriptor is
\* the token without its container suffix (the token itself for a primary
\* type), and parsing that string again succeeds with the same format, depth,
\* channels and string, and the default container type.
C12_RoundTrip ==
  (op = "parseDataDtor" /\ result.ok) =>
    /\ \A b \in DepthBits, u \in DepthSigns, c \in ChanSuffixes, k \in KindSuffixes :
         ParsedToken(DataTok(b, u, c, k)) => RoundTrips(DataTok(b, u, c, <<>>).s)
    /\ result.format = "cv" =>
         \E b \in DepthBits, u \in DepthSigns, c \in ChanSuffixes, k \in KindSuffixes :
           shape[1] = DataTok(b, u, c, k)
    /\ result.format = "std" => RoundTrips(shape[1].s)

\* CV_8U:Matx was parsed: its string is CV_8U and its container type Matx.
C12_Witness ==
  /\ ParsedToken(DataTok(<<"8">>, "U", <<>>, <<":">> \o Str_Matx))
  /\ result.ok
  /\ result.ctype = "Matx"
  /\ result.toString = "CV_8U"

\* parseDimDtor was called with this token.
ParsedDim(tok) == op = "parseDimDtor" /\ shape = <<tok>>

ZeroSizeMsg == "Invalid dimensional descriptor format: dimension should > 0"
DimFormatMsg == "Invalid dimensional descriptor format: "

\* The tokens of size 0: '0', 'vector:0' and the number 0.
ZeroDimToks ==
  {StrTok(<<"0">>), StrTok(Str_vector \o <<":", "0">>), NumTok(<<"0">>)}

\* C13: parseDimDtor answers '0', 'vector:0' and the number 0 with the
\* 'dimension should > 0' error, an error it gives for no other token (a token
\* outside both forms gets the format error); no descriptor it returns has
\* dims 0.
C13_ZeroSize ==
  op = "parseDimDtor" =>
    /\ shape[1] \in ZeroDimToks => (~result.ok /\ result.msg = ZeroSizeMsg)
    /\ (~result.ok /\ result.msg = ZeroSizeMsg) => shape[1] \in ZeroDimToks
    /\ (~result.ok /\ shape[1] \notin ZeroDimToks) => result.msg = DimFormatMsg
    /\ result.ok => result.dims # 0

\* 'vector:0' was rejected with the zero-size error.
C13_Witness ==
  /\ ParsedDim(StrTok(Str_vector \o <<":", "0">>))
  /\ ~result.ok
  /\ result.msg = ZeroSizeMsg

\* The valid dimension tokens: none or a literal n >= 1, alone (as a string
\* or as a number) or after 'vector:'.
ValidDimToks ==
  { StrTok(p \o z) : p \in {<<>>, Str_vector \o <<":">>},
                     z \in {Str_none} \cup { IntToChars(n) : n \in DimSizes \ {0} } }
  \cup { NumTok(IntToChars(n)) : n \in DimSizes \ {0} }

\* C14: for a valid token parseDimDtor returns type 'vector' when the token
\* starts with 'vector:' and 'Mat' otherwise, and dims 'none' when the size
\* part is none and the integer n of the literal otherwise; it returns a
\* descriptor for no other token, and a token of neither form (a negative or
\* fractional number included) gets the format error naming the token.
C14_DimDescriptor ==
  op = "parseDimDtor" =>
    /\ \A n \in DimSizes \ {0} :
         /\ ParsedDim(StrTok(IntToChars(n)))
              => result = [ok |-> TRUE, type |-> "Mat", dims |-> n]
         /\ ParsedDim(NumTok(IntToChars(n)))
              => result = [ok |-> TRUE, type |-> "Mat", dims |-> n]
         /\ ParsedDim(StrTok(Str_vector \o <<":">> \o IntToChars(n)))
              => result = [ok |-> TRUE, type |-> "vector", dims |-> n]
    /\ ParsedDim(StrTok(Str_none))
         => result = [ok |-> TRUE, type |-> "Mat", dims |-> NoneDims]
    /\ ParsedDim(StrTok(Str_vector \o <<":">> \o Str_none))
         => result = [ok |-> TRUE, type |-> "vector", dims |-> NoneDims]
    /\ result.ok => ( /\ shape[1] \in ValidDimToks
                      /\ result.dims = NoneDims \/ result.dims >= 1 )
    /\ (shape[1] \notin ValidDimToks /\ shape[1] \notin ZeroDimToks) =>
         /\ ~result.ok
         /\ result.msg = DimFormatMsg
         /\ result.args = <<Join(shape[1].s)>>

\* 'vector:12' was parsed as a vector of 12.
C14_Witness ==
  /\ ParsedDim(StrTok(Str_vector \o <<":", "1", "2">>))
  /\ result = [ok |-> TRUE, type |-> "vector", dims |-> 12]

\* parseAttrType was called with this expression.
ParsedAttr(tok) == op = "parseAttrType" /\ shape = <<tok>>

\* The default texts without the white space around them.
TrimmedDefault(d) ==
  IF d \in {<<"1", " ">>, <<"\t", "1">>, <<"1", "\f">>, <<"U+00A0", "1">>}
  THEN <<"1">> ELSE d

\* The default texts that satisfy the grammar of each type.
ValidDefaults(t) ==
  IF t = Str_string THEN {<<"'", "a", "'">>, <<"\"", "a", "\"">>, <<"'", "'">>}
  ELSE IF t = Str_int THEN {<<"0">>, <<"1">>, <<"1", "0">>, <<"-", "1", "0">>}
  ELSE IF t = Str_float
  THEN {<<"0">>, <<"1">>, <<"1", "0">>, <<"-", "1", "0">>, <<"0", ".", "5">>, <<".", "5">>,
        <<"-", "0", ".", "0">>, <<"-", "0">>, <<"1", ".", "5", "0">>}
  ELSE IF t = Str_bool THEN {<<"0">>, <<"1">>, Str_true, <<"F", "a", "l", "s", "e">>}
  ELSE {}

\* C20: parseAttrType returns a value exactly for an expression made of one
\* of string, int, float, bool, an '=' and a default that is not empty and
\* satisfies the grammar of the type, and the value is the type and the
\* trimmed default; every other expression gets an error.
C20_AttrGrammar ==
  op = "parseAttrType" =>
    /\ \A h \in AttrHeads, a \in AttrAssigns, d \in AttrDefaults :
         ParsedAttr(StrTok(h \o a \o d)) =>
           LET good == /\ h \in AttrTypeNames
                       /\ \E i \in 1..Len(a) : a[i] = "="
                       /\ TrimmedDefault(d) \in ValidDefaults(h)
           IN /\ result.ok <=> good
              /\ result.ok => /\ result.type = Join(h)
                              /\ result.defaultVal = Join(TrimmedDefault(d))
    /\ shape[1].ty # "string" => ~result.ok

\* The error carries the text of a token given to the call.
CarriesToken ==
  /\ result.args # <<>>
  /\ \E i \in 1..Len(shape) : result.args[Len(result.args)] = Join(shape[i].s)

\* The messages thrown with the string at fault.
TokenErrors ==
  { "Invalid dimensional descriptor format: ",
    "Invalid data descriptor format: ",
    "Invalid Data Cell format of channel: expect number between 1, 4 but get ",
    "Invalid Data Cell format of depth: ",
    "Invalid attribute type format: ",
    "Invalid default value for string: ",
    "Invalid default value for int: ",
    "Invalid default value for float: ",
    "Invalid default value for bool: " }

\* The messages thrown as fixed texts.
FixedErrors ==
  StructuralErrors \cup
  { ZeroSizeMsg,
    "Invalid data descriptor format: static Mat type does not support multichannels",
    "Invalid shape format: dynamic dimension size is not allowed for static Mat type",
    "Invalid shape format: Vec type should be one-dimensional",
    "Invalid shape format: empty shape array." }

\* C15 as claimed: every error of parseDimDtor, parseDataDtor, parseShape and
\* parseAttrType carries the token or string at fault, the zero-size error,
\* the multichannel static Mat error and the structural errors included.
C15_EveryErrorCarriesToken ==
  (op # "none" /\ Len(shape) >= 1 /\ ~result.ok) => CarriesToken

\* C15: the errors for a token outside a grammar (dimension format, data
\* format, depth, channel count, attribute format and default value) carry
\* the string given, whichever of the four functions throws them; the
\* zero-size error, the multichannel static Mat error and the errors on the
\* structure of a shape are fixed texts that carry no token.
C15_ErrorsCarryToken ==
  (op # "none" /\ ~result.ok) =>
    /\ result.msg \in TokenErrors \cup FixedErrors
    /\ result.msg \in TokenErrors => CarriesToken
    /\ result.msg \in FixedErrors => result.args = <<>>
    /\ op = "parseAttrType" => result.msg \in TokenErrors
    /\ (op = "parseDimDtor" /\ shape[1] \in ZeroDimToks) => result.msg \in FixedErrors

\* An int default of 00 was rejected with the default and the expression.
C15_Witness ==
  /\ ParsedAttr(StrTok(Str_int \o <<" ", "=", " ", "0", "0">>))
  /\ ~result.ok
  /\ result.args = <<"00", "int = 00">>

(***************************************************************************)
(* Claims on the generated fragments of one port.                          *)
(***************************************************************************)
\* The classification of the port's shape array.
PortShape == generator_parseShape(shape)

\* The dimension entries an inferred shape has by the classification: the
\* size of each dimension token in order, the marker for 'none', then the
\* channel count of a data token with several channels.
ExpectedEntries(p) ==
  [i \in 1..Len(p.dimDtorArr) |->
     IF p.dimDtorArr[i].dims = NoneDims THEN kUnknownDim ELSE IntStr(p.dimDtorArr[i].dims)]
  \o (IF p.dataDtor.channels > 1 THEN <<IntStr(p.dataDtor.channels)>> ELSE <<>>)

ExpectedForm(n) ==
  CASE n = 0 -> "Scalar" [] n = 1 -> "Vector" [] n = 2 -> "Matrix" [] OTHER -> "MakeShape"

ExpectedShapeStr(e) ==
  CASE Len(e) = 0 -> "c->Scalar()"
    [] Len(e) = 1 -> "c->Vector(" \o e[1] \o ")"
    [] Len(e) = 2 -> "c->Matrix(" \o e[1] \o ", " \o e[2] \o ")"
    [] OTHER      -> "c->MakeShape({ " \o join(e, ", ") \o " })"

\* C19: for every shape the classifier accepts, registerOpShapeFn gives an
\* inferred-shape expression with exactly arrayRank entries, the dimension
\* tokens in order (literal size, or the unknown-dimension marker for 'none')
\* followed by the channel count when channels > 1, in the scalar form for
\* rank 0, the vector form for rank 1, the matrix form for rank 2 and the
\* general form from rank 3 on.
C19_InferredShape ==
  op = "registerOpShapeFn" =>
    LET e == ExpectedEntries(PortShape)
    IN /\ result.ok
       /\ result.entries = e
       /\ Len(result.entries) = PortShape.tfRank
       /\ result.form = ExpectedForm(PortShape.tfRank)
       /\ result.text = "c->set_output(" \o IntStr(result.port.regIdx) \o ", "
                        \o ExpectedShapeStr(e) \o ");"

\* registerOpShapeFn gave the general form for ['vector:none', 'vector:3',
\* 'CV_32FC3']: the marker, the literal 3 and the 3 channels.
C19_Witness ==
  /\ op = "registerOpShapeFn"
  /\ result.ok
  /\ result.form = "MakeShape"
  /\ result.entries = <<kUnknownDim, "3", "3">>

\* The lines of a fragment that are of one kind.
LinesOfKind(lines, kind) == SelectSeq(lines, LAMBDA l : l.kind = kind)

\* Some vector dimension token of the classified shape has size 'none'.
SomeVectorUnknown(p) ==
  \E i \in 1..Len(p.dimDtorArr) :
    p.dimDtorArr[i].type = "vector" /\ p.dimDtorArr[i].dims = NoneDims

\* C16: in the array-to-container fragment the early-stop guard is emitted
\* only at a vector layer beyond the first and only when a vector dimension
\* is of unknown size; a shape whose vector dimensions all have literal sizes
\* gets no guard, a Block shape gets none, and the container-to-array
\* fragment never has one.
C16_GuardOnlyWhenUnknown ==
  /\ (op = "computeInputFn" /\ result.ok) =>
       LET guards == LinesOfKind(result.lines, "guard")
       IN /\ \A i \in 1..Len(guards) :
               guards[i].dims > 1 /\ guards[i].dims <= PortShape.vecDims
          /\ ~SomeVectorUnknown(PortShape) => guards = <<>>
          /\ PortShape.type = MAT => guards = <<>>
  /\ (op = "computeOutputFn" /\ result.ok) =>
       LinesOfKind(result.lines, "guard") = <<>>

\* The positions of the lines that read the first element of a vector layer
\* or belong to the copy loops.
ProbeAndLoopLines(lines) ==
  { i \in 1..Len(lines) :
      \/ lines[i].kind = "sizeOut" /\ lines[i].probe > 0
      \/ lines[i].kind \in {"for", "copy"} }

\* C17: in the container-to-array fragment of a shape with vectorDims > 0 the
\* size declarations that read the first element of a vector layer and the
\* copy loops come under an empty-container guard; with vectorDims = 0 the
\* fragment has no such guard.
C17_EmptyContainerGuard ==
  (op = "computeOutputFn" /\ result.ok) =>
    LET guards == { i \in 1..Len(result.lines) : result.lines[i].kind = "guard" }
    IN IF PortShape.vecDims > 0
       THEN \E g \in guards : \A i \in ProbeAndLoopLines(result.lines) : g < i
       ELSE guards = {}

\* The copy statements are one per channel index in ascending order, each
\* with the channel index as the last array index, or a single statement with
\* no channel index when there is one channel.
ChannelExpanded(lines, channels, cvRank) ==
  LET copies == LinesOfKind(lines, "copy")
  IN IF channels = 1
     THEN /\ Len(copies) = 1
          /\ copies[1].chan = <<>>
          /\ Len(copies[1].arrayArgs) = cvRank
     ELSE /\ Len(copies) = channels
          /\ \A c \in 1..channels :
               /\ copies[c].chan = <<c - 1>>
               /\ Len(copies[c].arrayArgs) = cvRank + 1
               /\ copies[c].arrayArgs[cvRank + 1] = IntStr(c - 1)

\* C18: in both copy directions the innermost copy step of a Block (MAT) or
\* VectorOfBlock (VEC_OF_MAT) fragment is exactly channels statements, one
\* per channel index 0..channels-1 in ascending order with that index as the
\* last array index, and exactly one statement without a channel index when
\* channels = 1.
C18_ChannelExpansion ==
  (op \in {"computeInputFn", "computeOutputFn"} /\ PortShape.type \in {MAT, VEC_OF_MAT}) =>
    /\ result.ok
    /\ ChannelExpanded(result.lines, PortShape.dataDtor.channels, PortShape.cvRank)

(***************************************************************************)
(* Claims on the type tables.                                              *)
(***************************************************************************)
\* parseDataDtor accepts the text as the depth code of a CV data token.
AcceptsDepth(t) ==
  LET r == parseDataDtor(StrTok(Str_CV \o <<"_">> \o t))
  IN r.ok /\ r.format = "cv" /\ r.dtype = Join(t)

\* parseDataDtor accepts the text as a primary type name.
AcceptsPrimitive(t) ==
  LET r == parseDataDtor(StrTok(t))
  IN r.ok /\ r.format = "std"

\* C29: cvToStd and cvToTf give a name for exactly the 7 depth codes that
\* parseDataDtor accepts and raise an error for every other code; stdToCv and
\* stdToTf give a name for exactly the 4 primary names parseDataDtor accepts;
\* and stdToTf(p) is cvToTf of the depth code of stdToCv(p).
C29_TypeTable ==
  LET t == shape[1].s IN
  /\ op \in {"cvToStd", "cvToTf"} =>
       /\ result.ok <=> AcceptsDepth(t)
       /\ ~result.ok => result = Throw("Invalid data type format of CV: ", <<Join(t)>>)
  /\ op \in {"stdToCv", "stdToTf"} =>
       /\ result.ok <=> AcceptsPrimitive(t)
       /\ ~result.ok => result = Throw("Type not supported: ", <<Join(t)>>)
  /\ (op = "stdToTf" /\ result.ok) =>
       \E code \in TypeTexts :
         /\ stdToCv(Join(t)).value = "CV_" \o Join(code)
         /\ cvToTf(Join(code)) = result
  /\ op # "none" =>
       /\ Cardinality({x \in TypeTexts : cvToStd(Join(x)).ok}) = 7
       /\ Cardinality({x \in TypeTexts : cvToTf(Join(x)).ok}) = 7
       /\ Cardinality({x \in TypeTexts : stdToCv(Join(x)).ok}) = 4
       /\ Cardinality({x \in TypeTexts : stdToTf(Join(x)).ok}) = 4

\* stdToTf('char') gave 'int8', the type cvToTf gives for the depth code of
\* stdToCv('char') = 'CV_8S'.
C29_Witness ==
  /\ op = "stdToTf"
  /\ shape = <<StrTok(Str_char)>>
  /\ result = [ok |-> TRUE, value |-> "int8"]
  /\ stdToCv("char").value = "CV_8S"

\* The index lists of every expression of a fragment that reads the array:
\* the early-stop probes, the appended elements and the copied elements.
ArrayReads(lines) ==
  UNION { { lines[i].reads[j] : j \in 1..Len(lines[i].reads) } :
            i \in { k \in 1..Len(lines) : lines[k].kind \in {"guard", "push", "copy"} } }

\* C26: in every array-to-container fragment each expression that reads the
\* array, the early-stop probe included, has exactly arrayRank indices, the
\* rank with which the array accessor is declared.
C26_ReadsHaveArrayRank ==
  (op = "computeInputFn" /\ result.ok) =>
    \A r \in ArrayReads(result.lines) : Len(r) = result.port.pShape.tfRank

\* C25: the array-to-container fragment of a VectorOfPrimitive shape sizes
\* every vector layer before indexing into it: the outer layer is pre-sized
\* from the first size variable exactly when vectorDims > 1, every further
\* layer the append statement indexes into is resized while descending, and
\* only the innermost layer is filled by appending.
C25_LayersSizedBeforeIndexing ==
  (op = "computeInputFn" /\ result.ok /\ result.port.pShape.type = VEC_OF_PRIM) =>
    LET name    == result.port.name
        nVec    == result.port.pShape.vecDims
        decl    == LinesOfKind(result.lines, "declare")
        push    == LinesOfKind(result.lines, "push")
    IN /\ Len(decl) = 1
       /\ decl[1].presize = IF nVec > 1 THEN <<dimSizeInVar(name) \o "0">> ELSE <<>>
       /\ Len(push) = 1
       /\ push[1].at = [k \in 1..(nVec - 1) |-> dimVar(name) \o IntStr(k - 1)]
       /\ \A layer \in 2..Len(push[1].at) :
            \E i \in 1..Len(result.lines) :
              result.lines[i].kind = "resize" /\ result.lines[i].layer = layer

\* How a copy statement addresses the container element: the element type
\* given to the accessor, the block index variables and the way the channel
\* is selected.
ContainerElement(l) ==
  [elemType |-> l.elemType, cvArgs |-> l.cvArgs, chanSel |-> l.chanSel, chan |-> l.chan]

\* C28: for a Block or VectorOfBlock shape the two copy directions address
\* the same container element in the same way: for every channel index the
\* container expression written by the array-to-container fragment and the
\* one read by the container-to-array fragment have the same element type,
\* the same block index variables and the same channel selection.
C28_SameContainerElement ==
  (/\ op \in {"computeInputFn", "computeOutputFn"}
   /\ result.port.pShape.type \in {MAT, VEC_OF_MAT}) =>
    LET inFn    == computeInputFn(result.port)
        outFn   == computeOutputFn(result.port)
    IN (inFn.ok /\ outFn.ok) =>
         LET written == LinesOfKind(inFn.lines, "copy")
             read    == LinesOfKind(outFn.lines, "copy")
         IN /\ Len(written) = result.port.pShape.dataDtor.channels
            /\ Len(read) = Len(written)
            /\ \A c \in 1..Len(written) :
                 ContainerElement(written[c]) = ContainerElement(read[c])

\* The index variables (or size variables) of the axes from..to-1 of a port.
AxisVars(prefix, from, to) == [k \in 1..(to - from) |-> prefix \o IntStr(from + k - 1)]

\* The positions of the lines of one kind, in order.
PositionsOfKind(lines, kind) == { i \in 1..Len(lines) : lines[i].kind = kind }

\* C24: the array-to-container fragment of a VectorOfBlock shape is a nest
\* of exactly vectorDims + blockDims loops, the loop of axis k with index
\* variable k bounded by size variable k; the block is allocated with
\* blockDims extents taken from the size variables vectorDims..blockRank-1,
\* the block accessor is indexed by the index variables
\* vectorDims..blockRank-1 only, the array by all index variables
\* 0..blockRank-1, and the finished block is appended at the index variables
\* 0..vectorDims-2.
C24_VectorOfBlockNest ==
  (/\ op = "computeInputFn"
   /\ result.port.pShape.type = VEC_OF_MAT
   /\ result.port.pShape.dataDtor.format = "cv") =>
    LET name      == result.port.name
        nVec      == result.port.pShape.vecDims
        nMat      == result.port.pShape.matDims
        blockRank == result.port.pShape.cvRank
        loops     == LinesOfKind(result.lines, "for")
        shapeArr  == LinesOfKind(result.lines, "shapeArr")
        allocs    == LinesOfKind(result.lines, "alloc")
        copies    == LinesOfKind(result.lines, "copy")
        pushes    == LinesOfKind(result.lines, "push")
    IN /\ result.ok
       /\ blockRank = nVec + nMat
       /\ Len(loops) = nVec + nMat
       /\ \A k \in 1..Len(loops) :
            /\ loops[k].index = dimVar(name) \o IntStr(k - 1)
            /\ loops[k].bound = dimSizeInVar(name) \o IntStr(k - 1)
       \* a nest: no loop is closed before the innermost body, and every
       \* loop is closed after it
       /\ \A c \in PositionsOfKind(result.lines, "close") :
            \A l \in PositionsOfKind(result.lines, "for") \cup PositionsOfKind(result.lines, "copy") :
              l < c
       /\ Cardinality(PositionsOfKind(result.lines, "close")) = nVec + nMat
       /\ Len(shapeArr) = 1
       /\ shapeArr[1].sizes = AxisVars(dimSizeInVar(name), nVec, blockRank)
       /\ Len(allocs) = 1
       /\ allocs[1].dims = nMat
       /\ allocs[1].dims = Len(shapeArr[1].sizes)
       /\ allocs[1].shapeVar = shapeArr[1].var
       /\ Len(copies) = result.port.pShape.dataDtor.channels
       /\ \A c \in 1..Len(copies) :
            /\ copies[c].target = "mat"
            /\ copies[c].cvArgs = AxisVars(dimVar(name), nVec, blockRank)
            /\ SubSeq(copies[c].arrayArgs, 1, blockRank) = AxisVars(dimVar(name), 0, blockRank)
       /\ Len(pushes) = 1
       /\ pushes[1].at = AxisVars(dimVar(name), 0, nVec - 1)

\* The fragment for ['vector:3', 'vector:3', 10, 'CV_32FC3'] was produced:
\* three loops, the block indexed by the index variable of axis 2 and
\* appended at the index variable of axis 0.
C24_Witness ==
  /\ op = "computeInputFn"
  /\ result.ok
  /\ result.port.pShape.type = VEC_OF_MAT
  /\ result.port.pShape.vecDims = 2
  /\ result.port.pShape.matDims = 1
  /\ Len(LinesOfKind(result.lines, "for")) = 3
  /\ Len(LinesOfKind(result.lines, "copy")) = 3
  /\ Len(LinesOfKind(result.lines, "push")) = 1
  /\ LinesOfKind(result.lines, "copy")[3].cvArgs = <<dimVar(result.port.name) \o "2">>
  /\ LinesOfKind(result.lines, "push")[1].at = <<dimVar(result.port.name) \o "0">>

\* The size variables a line refers to: the bound of a loop, the extents of
\* a block allocation, the initial size of the container and the shape of
\* the output array.
SizeVarsUsed(l) ==
  CASE l.kind = "for"      -> {l.bound}
    [] l.kind = "shapeArr" -> {l.sizes[k] : k \in 1..Len(l.sizes)}
    [] l.kind = "declare"  -> {l.presize[k] : k \in 1..Len(l.presize)}
    [] l.kind = "allocate" -> {l.sizes[k] : k \in 1..Len(l.sizes)}
    [] OTHER               -> {}

\* C27: in both copy directions the fragment of a port is produced, every
\* size variable referred to by a loop bound, a block allocation or the
\* shape of the output array is declared exactly once earlier in the
\* fragment of the same port, and the port has as many size variables as
\* its arrayRank: one per array axis in the array-to-container fragment;
\* vectorDims vector sizes, blockDims block sizes and one channel size
\* exactly when channels > 1 in the container-to-array fragment.
C27_SizeVarsDeclaredOnce ==
  op \in {"computeInputFn", "computeOutputFn"} =>
    /\ result.ok
    /\ LET p        == result.port.pShape
           sizeVar  == IF op = "computeInputFn" THEN dimSizeInVar(result.port.name)
                       ELSE dimSizeOutVar(result.port.name)
           declPos  == PositionsOfKind(result.lines, "sizeIn")
                       \cup PositionsOfKind(result.lines, "sizeOut")
       IN /\ Cardinality(declPos) = p.tfRank
          /\ { result.lines[i].var : i \in declPos } =
               { sizeVar \o IntStr(k) : k \in 0..(p.tfRank - 1) }
          /\ \A i, j \in declPos : i # j => result.lines[i].var # result.lines[j].var
          /\ \A u \in 1..Len(result.lines) :
               \A v \in SizeVarsUsed(result.lines[u]) :
                 \E i \in declPos : i < u /\ result.lines[i].var = v
          /\ op = "computeOutputFn" =>
               Cardinality(declPos) =
                 p.vecDims + p.matDims + (IF p.dataDtor.channels > 1 THEN 1 ELSE 0)

(***************************************************************************)
(* Claims on the lists of ports and on the call of the function.           *)
(***************************************************************************)
\* The ids of the items of a list that may be absent.
IdsOf(list) == IF list = <<>> THEN {} ELSE { list[1][k].id : k \in 1..Len(list[1]) }

\* The ids of a set in ascending order.
AscendingIds(ids) ==
  CHOOSE s \in [1..Cardinality(ids) -> ids] :
    \A i, j \in 1..Cardinality(ids) : i < j => s[i] < s[j]

\* The name the metadata gives the item with an id.
NameOfId(id) == "name" \o IntStr(id)

\* The ids of the ports read as inputs and of those written as outputs, in
\* ascending order.
InputOrder  == AscendingIds(IdsOf(shape.inputs) \cup IdsOf(shape.inputoutputs))
OutputOrder == AscendingIds(IdsOf(shape.outputs) \cup IdsOf(shape.inputoutputs))

\* C22: for ports with distinct ids, registerOpInput and computeInput both
\* order the union of inputs and inputoutputs by ascending id, so the port
\* registered k-th as an input (an inputoutput under '<name>_in') is the
\* port whose conversion fragment has regIdx = k; registerOpOutput,
\* registerOpShape and computeOutput order the union of outputs and
\* inputoutputs by ascending id with regIdx = position; for every order of
\* the lists given.
C22_PortNumbering ==
  /\ op = "registerOpInput" =>
       /\ result.ok
       /\ Len(result.value) = Len(InputOrder)
       /\ \A k \in 1..Len(InputOrder) :
            /\ result.value[k].name =
                 NameOfId(InputOrder[k])
                 \o (IF InputOrder[k] \in IdsOf(shape.inputoutputs) THEN "_in" ELSE "")
            /\ computeInput(shape).value[k].regIdx = k - 1
            /\ computeInput(shape).value[k].name = NameOfId(InputOrder[k])
  /\ op = "computeInput" =>
       /\ Len(result.value) = Len(InputOrder)
       /\ \A k \in 1..Len(InputOrder) :
            /\ result.value[k].regIdx = k - 1
            /\ result.value[k].name = NameOfId(InputOrder[k])
            /\ result.value[k].shape = PortShapeOf(InputOrder[k])
  /\ op = "registerOpOutput" =>
       /\ result.ok
       /\ Len(result.value) = Len(OutputOrder)
       /\ \A k \in 1..Len(OutputOrder) :
            result.value[k].name = NameOfId(OutputOrder[k])
  /\ op = "registerOpShape" =>
       /\ Len(result.value) = Len(OutputOrder)
       /\ \A k \in 1..Len(OutputOrder) :
            /\ result.value[k].regIdx = k - 1
            /\ result.value[k].shape = PortShapeOf(OutputOrder[k])
  /\ op = "computeOutput" =>
       /\ Len(result.value) = Len(OutputOrder)
       /\ \A k \in 1..Len(OutputOrder) :
            /\ result.value[k].regIdx = k - 1
            /\ result.value[k].name = NameOfId(OutputOrder[k])

\* registerOpInput was given the inputs with the ids 2, 0 in this order and
\* the inputoutput with the id 1, and registered the inputoutput second.
C22_Witness ==
  /\ op = "registerOpInput"
  /\ shape.inputs # <<>>
  /\ shape.inputoutputs # <<>>
  /\ [k \in 1..Len(shape.inputs[1]) |-> shape.inputs[1][k].id] = <<2, 0>>
  /\ IdsOf(shape.inputoutputs) = {1}
  /\ [k \in 1..Len(result.value) |-> result.value[k].name]
       = <<"name0", "name1_in", "name2">>

\* The name an item has in the call: a port with '_cv', an attribute with '_'.
ArgumentOfId(id) ==
  NameOfId(id) \o (IF id \in IdsOf(shape.attributes) THEN "_" ELSE "_cv")

\* C23: computeExecuteFn emits one call whose argument list has every
\* input, output and inputoutput (name + '_cv') and every attribute
\* (name + '_') exactly once, in ascending id across the four groups
\* whatever the order given; the declaration before the call names exactly
\* the outputs and is empty when there are none.
C23_ExecuteCall ==
  op = "computeExecuteFn" =>
    LET order   == AscendingIds(IdsOf(shape.inputs) \cup IdsOf(shape.outputs)
                                \cup IdsOf(shape.inputoutputs) \cup IdsOf(shape.attributes))
        decl    == result.lines[1]
        call    == result.lines[2]
        outputs == { NameOfId(id) \o "_cv" : id \in IdsOf(shape.outputs) }
    IN /\ Len(result.lines) = 2
       /\ call.kind = "call"
       /\ call.names = [k \in 1..Len(order) |-> ArgumentOfId(order[k])]
       /\ call.text = "  " \o shape.fnName \o "(" \o join(call.names, ", ") \o ");"
       /\ decl.kind = "declareOutput"
       /\ { decl.names[k] : k \in 1..Len(decl.names) } = outputs
       /\ Len(decl.names) = Cardinality(outputs)
       /\ decl.text = IF outputs = {} THEN ""
                         ELSE "Mat " \o join(decl.names, ", ") \o ";"

\* computeExecuteFn was given the input with the id 2, the output with the
\* id 1 and the attribute with the id 0, called with the attribute first
\* and declared the output alone.
C23_Witness ==
  /\ op = "computeExecuteFn"
  /\ IdsOf(shape.inputs) = {2}
  /\ IdsOf(shape.outputs) = {1}
  /\ IdsOf(shape.attributes) = {0}
  /\ result.lines[1].text = "Mat name1_cv;"
  /\ result.lines[2].text = "  my_fn(name0_, name1_cv, name2_cv);"

(***************************************************************************)
(* Claims on _render and the metadata it is given.                         *)
(***************************************************************************)
\* C30: _render leaves the metadata object it is given unchanged, and a
\* second call on the same object succeeds when the first did and returns
\* the same text.
C30_SpecificationUnchanged ==
  op = "_render" =>
    /\ shape = result.before
    /\ (result.calls >= 2 /\ result.first.ok => result.last = result.first)

(***************************************************************************)
(* Claims on render and the file it is given.                              *)
(***************************************************************************)
\* The errors of reading the file, of parsing it, and of classifying the
\* shapes of its ports and the types of its attributes.
InputErrors(file) ==
  IF file.content.kind # "json"
  THEN { r \in { render(file).callbacks[1] } : TRUE }
  ELSE { r \in { generator_parseShape(e.value.shape) :
                   e \in UNION { { objectKeys(file.content.opsMeta[g])[i] :
                                     i \in 1..Len(objectKeys(file.content.opsMeta[g])) } :
                                 g \in {"inputs", "outputs", "inputoutputs"} } }
               \cup { parseAttrType(e.value.type) :
                        e \in { objectKeys(file.content.opsMeta.attributes)[i] :
                                  i \in 1..Len(objectKeys(file.content.opsMeta.attributes)) } } :
           ~r.ok }

\* C21: render calls the callback at most once and exactly once by the time
\* nothing is pending; when reading or parsing the file or classifying a
\* port or an attribute fails, the callback has received that error and no
\* file is or will be written; otherwise fs.writeFile is called once and the
\* callback is called when the write completes.
C21_FailFastReportsOnce ==
  op # "none" =>
    /\ Len(result.callbacks) <= 1
    /\ (result.pending = <<>> => Len(result.callbacks) = 1)
    /\ IF InputErrors(shape) # {}
       THEN /\ Len(result.callbacks) = 1
            /\ result.callbacks[1] \in InputErrors(shape)
            /\ result.pending = <<>> /\ result.writes = 0 /\ result.files = <<>>
       ELSE /\ result.writes = 1
            /\ (op = "render" => result.pending # <<>> /\ result.callbacks = <<>>)
            /\ (op = "writeFile" => result.pending = <<>> /\ Len(result.callbacks) = 1)

====
